---- MODULE Spec2Model ----
(***************************************************************************)
(* DNS record convergence of the cub crate (src/src/dns): the record       *)
(* model of cloud_dns.rs and the two adapters, aws.rs (Route 53) and       *)
(* linode.rs, working on a live zone held by the provider.                 *)
(*                                                                         *)
(* Strings are sequences of tokens.  A token is a piece of text that no    *)
(* pattern of the code cuts in two: the double quote, the dot, the slash,  *)
(* the wildcard escape, a label, an IP literal.  Option::None of a string  *)
(* valued option is the empty sequence.                                    *)
(***************************************************************************)
EXTENDS Integers, Sequences, FiniteSets, TLC

VARIABLES provider, zone, last, again, built, calls, account, logs

vars == <<provider, zone, last, again, built, calls, account, logs>>

\* what the calls of CloudDns leave alone: the record set a
\* DnsRecordSetBuilder is building, the calls that run side by side, the
\* account at the provider and the loggers that threads share
aside == <<built, calls, account, logs>>

----------------------------------------------------------------------------
(* Strings *)

QUOTE == "\""
DOT == "."
SLASH == "/"
STAR == "*"
ESC052 == "\\052"

starts_with(s, p) == Len(s) >= Len(p) /\ SubSeq(s, 1, Len(p)) = p

ends_with(s, p) == Len(s) >= Len(p) /\ SubSeq(s, Len(s) - Len(p) + 1, Len(s)) = p

\* str::replace of one token by another
replace(s, from, to) == [i \in 1..Len(s) |-> IF s[i] = from THEN to ELSE s[i]]

RECURSIVE SeqToSet(_)
SeqToSet(s) == IF s = <<>> THEN {} ELSE {Head(s)} \cup SeqToSet(Tail(s))

RECURSIVE SelectIdx(_, _)
\* the subsequence of s at the positions not in drop
SelectIdx(s, drop) ==
    IF s = <<>> THEN <<>>
    ELSE LET n == Len(s)
             front == SelectIdx(SubSeq(s, 1, n - 1), drop)
         IN  IF n \in drop THEN front ELSE Append(front, s[n])

RECURSIVE Text(_)
\* the text of a sequence of tokens: its tokens one after the other
Text(s) == IF s = <<>> THEN "" ELSE Head(s) \o Text(Tail(s))

\* char::to_ascii_lowercase of a text of one character
LowerChar(c) ==
    CASE c = "A" -> "a" [] c = "B" -> "b" [] c = "C" -> "c" [] c = "D" -> "d"
      [] c = "E" -> "e" [] c = "F" -> "f" [] c = "G" -> "g" [] c = "H" -> "h"
      [] c = "I" -> "i" [] c = "J" -> "j" [] c = "K" -> "k" [] c = "L" -> "l"
      [] c = "M" -> "m" [] c = "N" -> "n" [] c = "O" -> "o" [] c = "P" -> "p"
      [] c = "Q" -> "q" [] c = "R" -> "r" [] c = "S" -> "s" [] c = "T" -> "t"
      [] c = "U" -> "u" [] c = "V" -> "v" [] c = "W" -> "w" [] c = "X" -> "x"
      [] c = "Y" -> "y" [] c = "Z" -> "z" [] OTHER -> c

RECURSIVE to_ascii_lowercase(_)
\* str::to_ascii_lowercase of a text
to_ascii_lowercase(t) ==
    IF t = "" THEN "" ELSE LowerChar(Head(t)) \o to_ascii_lowercase(Tail(t))

\* every ordering of a finite set, as sequences without repetition
Orderings(S) ==
    {f \in [1..Cardinality(S) -> S] : \A i, j \in 1..Cardinality(S) : f[i] = f[j] => i = j}

----------------------------------------------------------------------------
(* src/src/datacenter/cloud_datacenter.rs *)

NoDc == <<>>

split_once(s, sep) ==
    LET at == {i \in 1..Len(s) : s[i] = sep}
    IN  IF at = {} THEN <<>>
        ELSE LET i == CHOOSE k \in at : \A m \in at : k <= m
             IN  <<SubSeq(s, 1, i - 1), SubSeq(s, i + 1, Len(s))>>

\* DcProvider::from_str; "" when the name is no provider
DcProvider_from_str(s) ==
    LET name == to_ascii_lowercase(Text(s))
    IN  IF name \in {"aws", "developer", "hetzner", "linode"} THEN name ELSE ""

DcCity_from_aws_region(label) ==
    CASE label = <<"ap-northeast-1">> -> "Tokyo"
      [] label = <<"ap-south-1">> -> "Mumbai"
      [] label = <<"ap-southeast-1">> -> "Singapore"
      [] label = <<"ap-southeast-2">> -> "Sydney"
      [] label = <<"eu-central-1">> -> "Frankfurt"
      [] label = <<"eu-west-2">> -> "London"
      [] label = <<"sa-east-1">> -> "SaoPaulo"
      [] label = <<"us-east-1">> -> "Washington"
      [] label = <<"us-west-2">> -> "Boardman"
      [] OTHER -> ""

DcCity_from_hetzner_region(label) ==
    CASE label = <<"ash">> -> "Washington"
      [] label = <<"nbg1">> -> "Nuremberg"
      [] OTHER -> ""

DcCity_from_linode_region(label) ==
    CASE label = <<"eu-central">> -> "Frankfurt"
      [] label = <<"eu-west">> -> "London"
      [] label = <<"ap-west">> -> "Mumbai"
      [] label = <<"us-east">> -> "Newark"
      [] label = <<"us-iad">> -> "Washington"
      [] label = <<"ap-south">> -> "Singapore"
      [] label = <<"br-gru">> -> "SaoPaulo"
      [] label = <<"us-sea">> -> "Seattle"
      [] label = <<"ap-southeast">> -> "Sydney"
      [] label = <<"ap-northeast">> -> "Tokyo"
      [] OTHER -> ""

DcCity_from_region(label, prov) ==
    CASE prov = "aws" -> DcCity_from_aws_region(label)
      [] prov = "hetzner" -> DcCity_from_hetzner_region(label)
      [] prov = "linode" -> DcCity_from_linode_region(label)
      [] OTHER -> ""

\* DcCity::to_aws_region; <<>> is None
DcCity_to_aws_region(c) ==
    CASE c = "Boardman" -> <<"us-west-2">>
      [] c = "Frankfurt" -> <<"eu-central-1">>
      [] c = "Mumbai" -> <<"ap-south-1">>
      [] c = "London" -> <<"eu-west-2">>
      [] c = "SaoPaulo" -> <<"sa-east-1">>
      [] c = "Singapore" -> <<"ap-southeast-1">>
      [] c = "Sydney" -> <<"ap-southeast-2">>
      [] c = "Tokyo" -> <<"ap-northeast-1">>
      [] c = "Washington" -> <<"us-east-1">>
      [] OTHER -> <<>>

\* CloudDatacenter::city, the city alone; "" is None
city(dc) ==
    LET sp == split_once(dc, SLASH)
    IN  IF sp = <<>> THEN ""
        ELSE IF DcProvider_from_str(sp[1]) = "" THEN ""
        ELSE DcCity_from_region(sp[2], DcProvider_from_str(sp[1]))

from_aws_region(region) == <<"aws", SLASH>> \o region

nearest_aws_region(dc) ==
    LET c == city(dc)
        r == IF c = "" THEN <<>>
             ELSE IF c = "Seattle" THEN <<"us-west-2">>
             ELSE IF c = "Nuremberg" THEN <<"eu-central-1">>
             ELSE DcCity_to_aws_region(c)
    IN  IF r = <<>> THEN <<"us-east-1">> ELSE r

----------------------------------------------------------------------------
(* Text helpers of src/src/dns/aws.rs *)

TTL_SECS == 30

double_quoted(text) ==
    IF starts_with(text, <<QUOTE>>) /\ ends_with(text, <<QUOTE>>)
    THEN text
    ELSE <<QUOTE>> \o text \o <<QUOTE>>

\* a fully_qualified that appends the domain to every hostname but the apex
fully_qualified_always(hostname, domain) ==
    IF Len(hostname) = 0 THEN domain
    ELSE hostname \o <<DOT>> \o domain

fully_qualified(hostname, domain) ==
    IF Len(hostname) = 0 THEN domain
    ELSE IF ends_with(hostname, domain) THEN hostname
    ELSE hostname \o <<DOT>> \o domain

sans_trailing_dot(name) ==
    IF ends_with(name, <<DOT>>) THEN SubSeq(name, 1, Len(name) - 1) ELSE name

parse_name(target) == sans_trailing_dot(replace(target, ESC052, STAR))

sans_domain(domain, hostname) ==
    IF domain = hostname THEN <<>>
    ELSE IF ends_with(hostname, <<DOT>> \o domain)
         THEN SubSeq(hostname, 1, Len(hostname) - Len(domain) - 1)
         ELSE hostname

\* the Option<usize> ttl of a call; NoTtl is None
NoTtl == -1

ttl_sec_of(ttl) == IF ttl = NoTtl THEN TTL_SECS ELSE IF ttl = 0 THEN TTL_SECS ELSE ttl

\* char::to_digit(radix) of a text of one character; -1 is None
to_digit(c, radix) ==
    LET d == CASE c = "0" -> 0 [] c = "1" -> 1 [] c = "2" -> 2 [] c = "3" -> 3
               [] c = "4" -> 4 [] c = "5" -> 5 [] c = "6" -> 6 [] c = "7" -> 7
               [] c = "8" -> 8 [] c = "9" -> 9
               [] c \in {"a", "A"} -> 10 [] c \in {"b", "B"} -> 11
               [] c \in {"c", "C"} -> 12 [] c \in {"d", "D"} -> 13
               [] c \in {"e", "E"} -> 14 [] c \in {"f", "F"} -> 15
               [] OTHER -> -1
    IN  IF d < radix THEN d ELSE -1

\* what a step of the parser of std::net gives: whether it read something,
\* the value read and the text left.  NotRead leaves the text where it was.
Read(val, rest) == [ok |-> TRUE, val |-> val, rest |-> rest]
NotRead(s) == [ok |-> FALSE, val |-> 0, rest |-> s]

RECURSIVE ReadDigits(_, _, _, _, _, _)
\* one turn of the loop of Parser::read_number, d the digit at the head of s
\* or -1: checked_mul and checked_add fail above the greatest value of the
\* type, and more digits than max_digits fail
NextDigit(s, radix, max_digits, greatest, result, digit_count, d) ==
    IF d < 0 THEN [ok |-> digit_count > 0, val |-> result, rest |-> s, n |-> digit_count]
    ELSE IF result * radix + d > greatest \/ digit_count + 1 > max_digits
    THEN [ok |-> FALSE, val |-> 0, rest |-> s, n |-> 0]
    ELSE ReadDigits(Tail(s), radix, max_digits, greatest, result * radix + d,
                    digit_count + 1)

\* the loop of Parser::read_number
ReadDigits(s, radix, max_digits, greatest, result, digit_count) ==
    NextDigit(s, radix, max_digits, greatest, result, digit_count,
              IF s = "" THEN -1 ELSE to_digit(Head(s), radix))

\* the end of Parser::read_number, r what its loop has read
NumberRead(s, allow_zero_prefix, r) ==
    IF ~r.ok THEN NotRead(s)
    ELSE IF ~allow_zero_prefix /\ Head(s) = "0" /\ r.n > 1 THEN NotRead(s)
    ELSE Read(r.val, r.rest)

\* Parser::read_number
read_number(s, radix, max_digits, greatest, allow_zero_prefix) ==
    NumberRead(s, allow_zero_prefix, ReadDigits(s, radix, max_digits, greatest, 0, 0))

\* Parser::read_separator: whether the separator that stands before every
\* item but the first is missing, and the text after it
NoSeparator(s, sep, index) == index > 0 /\ (s = "" \/ Head(s) # sep)
AfterSeparator(s, index) == IF index = 0 THEN s ELSE Tail(s)

\* read_separator(sep, index, |p| p.read_number(..))
NumberAfter(s, sep, index, radix, max_digits, greatest, allow_zero_prefix) ==
    IF NoSeparator(s, sep, index) THEN NotRead(s)
    ELSE read_number(AfterSeparator(s, index), radix, max_digits, greatest,
                     allow_zero_prefix)

RECURSIVE ReadOctets(_, _, _, _)
\* one turn of the loop of Parser::read_ipv4_addr, num the octet read
OctetRead(start, i, groups, num) ==
    IF ~num.ok THEN NotRead(start)
    ELSE ReadOctets(start, num.rest, i + 1, Append(groups, num.val))

\* the loop of Parser::read_ipv4_addr; start is the text the address began at
ReadOctets(start, s, i, groups) ==
    IF i = 4 THEN Read(groups, s)
    ELSE OctetRead(start, i, groups, NumberAfter(s, ".", i, 10, 3, 255, FALSE))

\* Parser::read_ipv4_addr: the four octets
read_ipv4_addr(s) == ReadOctets(s, s, 0, <<>>)

\* read_separator(':', i, |p| p.read_ipv4_addr())
Ipv4After(s, index) ==
    IF NoSeparator(s, ":", index) THEN NotRead(s)
    ELSE read_ipv4_addr(AfterSeparator(s, index))

RECURSIVE read_groups(_, _, _, _)
\* one turn of the loop of read_groups: ipv4 is the embedded IPv4 address
\* tried first, group the group tried next
GroupRead(s, i, limit, groups, ipv4, group) ==
    IF ipv4.ok
    THEN [groups |-> groups \o <<ipv4.val[1] * 256 + ipv4.val[2],
                                 ipv4.val[3] * 256 + ipv4.val[4]>>,
          ipv4 |-> TRUE, rest |-> ipv4.rest]
    ELSE IF group.ok THEN read_groups(group.rest, i + 1, limit, Append(groups, group.val))
    ELSE [groups |-> groups, ipv4 |-> FALSE, rest |-> s]

\* read_groups of Parser::read_ipv6_addr: the groups read, whether they end
\* with an embedded IPv4 address, and the text left
read_groups(s, i, limit, groups) ==
    IF i >= limit THEN [groups |-> groups, ipv4 |-> FALSE, rest |-> s]
    ELSE GroupRead(s, i, limit, groups,
                   IF i < limit - 1 THEN Ipv4After(s, i) ELSE NotRead(s),
                   NumberAfter(s, ":", i, 16, 4, 65535, TRUE))

\* the address of the groups before and after the "::"
Ipv6Tail(head, tail) ==
    Read(head.groups \o [k \in 1..(8 - Len(head.groups) - Len(tail.groups)) |-> 0]
         \o tail.groups, tail.rest)

\* Parser::read_ipv6_addr after its first read_groups
Ipv6Read(s, head) ==
    IF Len(head.groups) = 8 THEN Read(head.groups, head.rest)
    ELSE IF head.ipv4 \/ Len(head.rest) < 2 \/ SubSeq(head.rest, 1, 2) # "::"
    THEN NotRead(s)
    ELSE Ipv6Tail(head, read_groups(SubSeq(head.rest, 3, Len(head.rest)), 0,
                                    8 - (Len(head.groups) + 1), <<>>))

\* Parser::read_ipv6_addr: the eight groups
read_ipv6_addr(s) == Ipv6Read(s, read_groups(s, 0, 8, <<>>))

RECURSIVE Digits(_, _)
\* the digits of a number of at least one digit, in lower case
Digits(n, radix) ==
    LET d == SubSeq("0123456789abcdef", (n % radix) + 1, (n % radix) + 1)
    IN  IF n < radix THEN d ELSE Digits(n \div radix, radix) \o d

RECURSIVE Joined(_, _, _)
\* the numbers of a sequence as digits with a separator between them
Joined(groups, radix, sep) ==
    IF groups = <<>> THEN ""
    ELSE Digits(groups[1], radix)
         \o (IF Len(groups) = 1 THEN "" ELSE sep \o Joined(Tail(groups), radix, sep))

\* Display of Ipv4Addr
Ipv4Text(octets) == Joined(octets, 10, ".")

RECURSIVE LongestZeroes(_, _, _, _)
\* the first longest run of zero groups, as Display of Ipv6Addr finds it:
\* current and longest are <<start, len>>
LongestZeroes(segments, i, current, longest) ==
    IF i > Len(segments) THEN longest
    ELSE LET cur == IF segments[i] # 0 THEN <<0, 0>>
                    ELSE <<IF current[2] = 0 THEN i ELSE current[1], current[2] + 1>>
         IN  LongestZeroes(segments, i + 1, cur,
                           IF cur[2] > longest[2] THEN cur ELSE longest)

\* Display of Ipv6Addr with the run of zero groups zeroes
Ipv6Compressed(segments, zeroes) ==
    IF zeroes[2] > 1
    THEN Joined(SubSeq(segments, 1, zeroes[1] - 1), 16, ":") \o "::"
         \o Joined(SubSeq(segments, zeroes[1] + zeroes[2], 8), 16, ":")
    ELSE Joined(segments, 16, ":")

\* Display of Ipv6Addr
Ipv6Text(segments) ==
    IF SubSeq(segments, 1, 6) = <<0, 0, 0, 0, 0, 65535>>
    THEN "::ffff:" \o Ipv4Text(<<segments[7] \div 256, segments[7] % 256,
                                 segments[8] \div 256, segments[8] % 256>>)
    ELSE Ipv6Compressed(segments, LongestZeroes(segments, 1, <<0, 0>>, <<0, 0>>))

\* Parser::parse_with of IpAddr: an IPv4 address or else an IPv6 address, and
\* nothing may follow it.  The value of an address is its canonical text, the
\* text Display writes; "" when the literal is no IP address.
AddrText(v4, v6) ==
    IF v4.ok THEN (IF v4.rest = "" THEN Ipv4Text(v4.val) ELSE "")
    ELSE IF v6.ok /\ v6.rest = "" THEN Ipv6Text(v6.val)
    ELSE ""

\* IpAddr::from_str
IpAddr_from_str(target) ==
    AddrText(read_ipv4_addr(Text(target)), read_ipv6_addr(Text(target)))

\* IpAddr::to_string
IpAddr_to_string(ip) == <<ip>>

----------------------------------------------------------------------------
(* The provider: the live zone and its four operations *)

\* A live record as the provider holds it.  targets is the set of values of
\* the record (one value on Linode), setid the set identifier of a Route 53
\* record, geo the AWS region of its geoproximity location, alias whether it
\* is an alias record, which has no values.
ZoneRecord(name, type, targets, ttl, setid, geo, alias) ==
    [name |-> name, type |-> type, targets |-> targets, ttl |-> ttl, setid |-> setid,
     geo |-> geo, alias |-> alias]

NullRec == ZoneRecord(<<>>, "", {}, 0, <<>>, <<>>, FALSE)

\* Route 53 keeps names fully qualified with a trailing dot and the wildcard
\* escaped
AwsStoredName(name) ==
    LET n == replace(name, STAR, ESC052)
    IN  IF ends_with(n, <<DOT>>) THEN n ELSE n \o <<DOT>>

\* One provider call of a handler as it shows in the operation log.  id is
\* the record id a delete names, 0 in every other request.
Op(op, rec, ok) == [op |-> op, rec |-> rec, ok |-> ok, id |-> 0]

\* DELETE of record record_id, which the listing showed as rec
DeleteOp(rec, record_id, ok) == [Op("delete", rec, ok) EXCEPT !.id = record_id]

\* The zones the provider lists for the account, in the order of its listing
ProviderDomains == << <<"d">> >>

\* The environment of one call: fault is the number of the provider call that
\* fails (0: none fails), fkind how it fails: "transport" (no answer) or
\* "status" (the provider answers with an error status and body); page is the
\* number of records and zpage the number of zones the provider puts in one
\* answer of a listing (0: all of them), domains the zones of the account.
Env(fault, fkind, page, domains, zpage) ==
    [fault |-> fault, fkind |-> fkind, page |-> page, domains |-> domains,
     zpage |-> zpage]

NoFault == Env(0, "transport", 0, ProviderDomains, 0)

\* whether a listing of the items s does not fit into one answer, and the
\* items of the first answer
IsTruncated(s, page) == page # 0 /\ Len(s) > page
FirstPage(s, page) == IF IsTruncated(s, page) THEN SubSeq(s, 1, page) ELSE s

\* An extended record of a listing: id is the position of the record in the
\* zone, which is what a delete names.
ExtendedDnsRecord(id, name, record_type, targets, ttl_sec, datacenter) ==
    [id |-> id, name |-> name, record_type |-> record_type, targets |-> targets,
     ttl_sec |-> ttl_sec, datacenter |-> datacenter]

RECURSIVE list_route53_records(_, _)
\* the records of zone z from position i on, alias records left out
list_route53_records(z, i) ==
    IF i > Len(z) THEN <<>>
    ELSE LET rest == list_route53_records(z, i + 1)
             r == z[i]
         IN  IF r.alias THEN rest
             ELSE <<ExtendedDnsRecord(i, parse_name(r.name), r.type, r.targets, r.ttl,
                                      IF r.geo = <<>> THEN NoDc ELSE from_aws_region(r.geo))>>
                  \o rest

list_linode_records(z) ==
    [i \in 1..Len(z) |->
        ExtendedDnsRecord(i, z[i].name, z[i].type, z[i].targets, z[i].ttl, NoDc)]

ListRecords(prov, z) ==
    IF prov = "aws" THEN list_route53_records(z, 1) ELSE list_linode_records(z)

\* the records of the one answer a handler reads: neither adapter asks for a
\* second page
PageOf(z, env) == FirstPage(z, env.page)

\* ChangeAction::Upsert of Route 53: the record of the same name, type and set
\* identifier is replaced where it stands, else the record is added
AwsUpsert(z, rec) ==
    LET at == {i \in 1..Len(z) :
                 z[i].name = rec.name /\ z[i].type = rec.type /\ z[i].setid = rec.setid}
    IN  IF at = {} THEN Append(z, rec)
        ELSE [i \in 1..Len(z) |-> IF i \in at THEN rec ELSE z[i]]

\* POST /domains/{id}/records of Linode: always a new record
LinodePost(z, rec) == Append(z, rec)

\* The record a creation hands to the provider
AwsCreateRecord(x) ==
    LET region == IF x.datacenter = NoDc THEN <<>> ELSE nearest_aws_region(x.datacenter)
    IN  ZoneRecord(AwsStoredName(x.name), x.record_type, x.targets, x.ttl_sec, region,
                   region, FALSE)

LinodeCreateRecord(x) ==
    ZoneRecord(x.name, x.record_type, x.targets, x.ttl_sec, <<>>, <<>>, FALSE)

\* The running state of a call: the zone, the positions deleted since the
\* last listing, the operation log, the trace lines, whether it still runs
\* (ok) and, when it stopped, the kind of the error: "Anyhow" for
\* Error::Anyhow, "FailedDependency" for Error::Http(FAILED_DEPENDENCY, _)
CallState(z, dead, ops, log, ok, err) ==
    [zone |-> z, dead |-> dead, ops |-> ops, log |-> log, ok |-> ok, err |-> err]

Failed(st, op, rec, err) ==
    [st EXCEPT !.ops = Append(@, Op(op, rec, FALSE)), !.ok = FALSE, !.err = err]

Fails(st, env) == env.fault = Len(st.ops) + 1

\* AwsDns::delete_domain_record: every failure of the SDK call is an error
aws_delete_domain_record(st, id, env) ==
    IF Fails(st, env)
    THEN [st EXCEPT !.ops = Append(@, DeleteOp(st.zone[id], id, FALSE)), !.ok = FALSE,
                    !.err = "Anyhow"]
    ELSE [st EXCEPT !.ops = Append(@, DeleteOp(st.zone[id], id, TRUE)),
                    !.dead = @ \cup {id}]

\* LinodeDns::delete_domain_record: only a transport failure is an error, the
\* status of the response is not looked at
linode_delete_domain_record(st, id, env) ==
    IF Fails(st, env)
    THEN IF env.fkind = "transport"
         THEN [st EXCEPT !.ops = Append(@, DeleteOp(st.zone[id], id, FALSE)),
                         !.ok = FALSE, !.err = "FailedDependency"]
         ELSE [st EXCEPT !.ops = Append(@, DeleteOp(st.zone[id], id, FALSE))]
    ELSE [st EXCEPT !.ops = Append(@, DeleteOp(st.zone[id], id, TRUE)),
                    !.dead = @ \cup {id}]

delete_domain_record(prov, st, id, env) ==
    IF prov = "aws" THEN aws_delete_domain_record(st, id, env)
    ELSE linode_delete_domain_record(st, id, env)

\* The zone with the deleted positions gone
Settle(st) == [st EXCEPT !.zone = SelectIdx(st.zone, st.dead), !.dead = {}]

\* A line of the StringLogger of a call
TraceLine(name, what, targets) == [name |-> name, what |-> what, targets |-> targets]

\* create_domain_record of both adapters: the trace line, then the request
create_domain_record(prov, st0, x, env) ==
    LET st == Settle(st0)
        rec == IF prov = "aws" THEN AwsCreateRecord(x) ELSE LinodeCreateRecord(x)
        line == TraceLine(x.name, x.record_type, x.targets)
    IN  IF Fails(st, env)
        THEN [Failed(st, "create", rec, IF prov = "aws" THEN "Anyhow" ELSE "FailedDependency")
                EXCEPT !.log = Append(@, line)]
        ELSE [st EXCEPT !.ops = Append(@, Op("create", rec, TRUE)),
                        !.log = Append(@, line),
                        !.zone = IF prov = "aws" THEN AwsUpsert(@, rec)
                                 ELSE LinodePost(@, rec)]

RECURSIVE DeleteAll(_, _, _, _)
\* for record_id in removals { delete_domain_record(..).await? }
DeleteAll(prov, st, removals, env) ==
    IF removals = <<>> \/ ~st.ok THEN st
    ELSE DeleteAll(prov, delete_domain_record(prov, st, Head(removals), env),
                   Tail(removals), env)

RECURSIVE CreateAll(_, _, _, _)
\* for record in adds { create_domain_record(..).await? }
CreateAll(prov, st, adds, env) ==
    IF adds = <<>> \/ ~st.ok THEN st
    ELSE CreateAll(prov, create_domain_record(prov, st, Head(adds), env), Tail(adds), env)

----------------------------------------------------------------------------
(* The record model of src/src/dns/cloud_dns.rs *)

\* DnsRecord: kind is "A", "Cname", "Txt" or "None"; addrs is the map of an A
\* record (IP address -> datacenter, NoDc for None), text the target of a
\* Cname or the text of a Txt
DnsRecord_A(addrs) == [kind |-> "A", addrs |-> addrs, text |-> <<>>]
DnsRecord_Cname(name) == [kind |-> "Cname", addrs |-> <<>>, text |-> name]
DnsRecord_Txt(text) == [kind |-> "Txt", addrs |-> <<>>, text |-> text]
DnsRecord_None == [kind |-> "None", addrs |-> <<>>, text |-> <<>>]

new_a(ip_addr) == DnsRecord_A([ip \in {ip_addr} |-> NoDc])

new_ag(ip_addr, datacenter) == DnsRecord_A([ip \in {ip_addr} |-> datacenter])

----------------------------------------------------------------------------
(* Zone resolution and listing, both adapters *)

\* get_domain_id: list the zones, find the one named domain_name.  AwsDns
\* refuses a truncated answer; LinodeDns reads the first page and no more.
get_domain_id(prov, st, domain_name, env) ==
    IF Fails(st, env)
    THEN Failed(st, "zones", NullRec, IF prov = "aws" THEN "Anyhow" ELSE "FailedDependency")
    ELSE IF \/ prov = "aws" /\ IsTruncated(env.domains, env.zpage)
            \/ domain_name \notin SeqToSet(FirstPage(env.domains, env.zpage))
    THEN [st EXCEPT !.ops = Append(@, Op("zones", NullRec, TRUE)), !.ok = FALSE,
                    !.err = "FailedDependency"]
    ELSE [st EXCEPT !.ops = Append(@, Op("zones", NullRec, TRUE))]

\* the listing request of list_route53_records / list_linode_records
list_request(prov, st, env) ==
    IF ~st.ok THEN st
    ELSE IF Fails(st, env)
    THEN Failed(st, "list", NullRec, IF prov = "aws" THEN "Anyhow" ELSE "FailedDependency")
    ELSE IF prov = "aws" /\ IsTruncated(st.zone, env.page)
    THEN [st EXCEPT !.ops = Append(@, Op("list", NullRec, TRUE)), !.ok = FALSE,
                    !.err = "FailedDependency"]
    ELSE [st EXCEPT !.ops = Append(@, Op("list", NullRec, TRUE))]

RECURSIVE FilterRecordsAnyName(_, _, _)
\* a filter that looks at the type of a record and not at its name
FilterRecordsAnyName(list, name, types) ==
    IF list = <<>> THEN <<>>
    ELSE LET rest == FilterRecordsAnyName(Tail(list), name, types)
             r == Head(list)
         IN  IF types = {} \/ r.record_type \in types
             THEN <<r>> \o rest ELSE rest

\* the records of a listing that pass a filter of a handler
RECURSIVE FilterRecords(_, _, _)
FilterRecords(list, name, types) ==
    IF list = <<>> THEN <<>>
    ELSE LET rest == FilterRecords(Tail(list), name, types)
             r == Head(list)
         IN  IF r.name = name /\ (types = {} \/ r.record_type \in types)
             THEN <<r>> \o rest ELSE rest

----------------------------------------------------------------------------
(* src/src/dns/aws.rs: AwsDns::upsert_a_record *)

\* a parse that passes over the targets that are no IP address
ParsedIpsLenient(targets) ==
    {IpAddr_from_str(t) : t \in {u \in targets : IpAddr_from_str(u) # ""}}

\* the IP addresses of the targets of a live A record; "" for a target that
\* does not parse
ParsedIps(targets) == {IpAddr_from_str(t) : t \in targets}

\* a keep test that takes no record without a datacenter for right
AwsKeepAffineOnly(ips, datacenter, ipgeos, found) ==
    /\ datacenter # NoDc
    /\ \A ip \in ips :
          ip \in DOMAIN ipgeos /\ ipgeos[ip] = datacenter /\ ip \notin found
    /\ \A ip \in DOMAIN ipgeos : ipgeos[ip] = datacenter => ip \in ips

\* whether a live A record is exactly right (aws.rs 325-330)
AwsKeep(ips, datacenter, ipgeos, found) ==
    /\ \A ip \in ips :
          ip \in DOMAIN ipgeos /\ ipgeos[ip] = datacenter /\ ip \notin found
    /\ \A ip \in DOMAIN ipgeos : ipgeos[ip] = datacenter => ip \in ips

RECURSIVE AwsScan(_, _, _, _)
\* the loop over id_records: the removals and the IPs found, or the parse error
AwsScan(id_records, ipgeos, removals, found) ==
    IF id_records = <<>> THEN [err |-> FALSE, removals |-> removals, found |-> found]
    ELSE LET r == Head(id_records)
             ips == ParsedIps(r.targets)
         IN  CASE r.record_type = "A" ->
                    IF "" \in ips
                    THEN [err |-> TRUE, removals |-> removals, found |-> found]
                    ELSE IF AwsKeep(ips, r.datacenter, ipgeos, found)
                    THEN AwsScan(Tail(id_records), ipgeos, removals, found \cup ips)
                    ELSE AwsScan(Tail(id_records), ipgeos, Append(removals, r.id), found)
               [] r.record_type = "CNAME" ->
                    AwsScan(Tail(id_records), ipgeos, Append(removals, r.id), found)
               [] OTHER -> AwsScan(Tail(id_records), ipgeos, removals, found)

\* the record added for one datacenter (aws.rs 346-362)
AwsAdd(datacenter, fq_hostname, ttl_sec, ipgeos, found) ==
    ExtendedDnsRecord(0, fq_hostname, "A",
        {IpAddr_to_string(ip) :
            ip \in {i \in DOMAIN ipgeos : i \notin found /\ ipgeos[i] = datacenter}},
        ttl_sec, datacenter)

\* the outcomes of upsert_a_record, one for each order in which the HashMap
\* adds may be walked
aws_upsert_a_record(st, fq_hostname, ttl_sec, id_records, ipgeos, env) ==
    LET scan == AwsScan(id_records, ipgeos, <<>>, {})
        groups == {ipgeos[ip] : ip \in {i \in DOMAIN ipgeos : i \notin scan.found}}
    IN  IF scan.err THEN {[st EXCEPT !.ok = FALSE, !.err = "FailedDependency"]}
        ELSE {CreateAll("aws", DeleteAll("aws", st, scan.removals, env),
                        [k \in 1..Len(order) |->
                            AwsAdd(order[k], fq_hostname, ttl_sec, ipgeos, scan.found)],
                        env) : order \in Orderings(groups)}

----------------------------------------------------------------------------
(* src/src/dns/linode.rs: LinodeDns::upsert_a_record *)

\* the one target of a Linode record
TargetOf(r) == CHOOSE t \in r.targets : TRUE

RECURSIVE LinodeScan(_, _, _, _)
LinodeScan(id_records, ip_addrs, removals, found) ==
    IF id_records = <<>> THEN [err |-> FALSE, removals |-> removals, found |-> found]
    ELSE LET r == Head(id_records)
             ip == IpAddr_from_str(TargetOf(r))
         IN  CASE r.record_type = "A" ->
                    IF ip = ""
                    THEN [err |-> TRUE, removals |-> removals, found |-> found]
                    ELSE IF ip \in ip_addrs /\ ip \notin found
                    THEN LinodeScan(Tail(id_records), ip_addrs, removals, found \cup {ip})
                    ELSE LinodeScan(Tail(id_records), ip_addrs, Append(removals, r.id), found)
               [] r.record_type = "CNAME" ->
                    LinodeScan(Tail(id_records), ip_addrs, Append(removals, r.id), found)
               [] OTHER -> LinodeScan(Tail(id_records), ip_addrs, removals, found)

LinodeAdd(ip, hostname, ttl_sec) ==
    ExtendedDnsRecord(0, hostname, "A", {IpAddr_to_string(ip)}, ttl_sec, NoDc)

\* an upsert_a_record that goes on with what the scan had gathered when it met
\* a target that is no IP address
linode_upsert_a_record_skips_corrupt(st, hostname, ttl_sec, id_records, ip_addrs, env) ==
    LET scan == LinodeScan(id_records, ip_addrs, <<>>, {})
    IN  {CreateAll("linode", DeleteAll("linode", st, scan.removals, env),
                   [k \in 1..Len(order) |-> LinodeAdd(order[k], hostname, ttl_sec)],
                   env) : order \in Orderings(ip_addrs \ scan.found)}

\* the outcomes of upsert_a_record, one for each order in which the HashSet
\* ip_addrs may be walked
linode_upsert_a_record(st, hostname, ttl_sec, id_records, ip_addrs, env) ==
    LET scan == LinodeScan(id_records, ip_addrs, <<>>, {})
    IN  IF scan.err THEN {[st EXCEPT !.ok = FALSE, !.err = "FailedDependency"]}
        ELSE {CreateAll("linode", DeleteAll("linode", st, scan.removals, env),
                        [k \in 1..Len(order) |-> LinodeAdd(order[k], hostname, ttl_sec)],
                        env) : order \in Orderings(ip_addrs \ scan.found)}

----------------------------------------------------------------------------
(* update_dns_route of both adapters *)

RECURSIVE CnameScanKeepsEvery(_, _, _, _)
\* a loop of the Cname arm that keeps every CNAME record with the right target
CnameScanKeepsEvery(id_records, link, removals, found) ==
    IF id_records = <<>> THEN [removals |-> removals, found |-> found]
    ELSE LET r == Head(id_records)
         IN  CASE r.record_type = "A" ->
                    CnameScanKeepsEvery(Tail(id_records), link, Append(removals, r.id),
                                        found)
               [] r.record_type = "CNAME" ->
                    IF Cardinality(r.targets) = 1 /\ r.targets = {link}
                    THEN CnameScanKeepsEvery(Tail(id_records), link, removals, TRUE)
                    ELSE CnameScanKeepsEvery(Tail(id_records), link,
                                             Append(removals, r.id), found)
               [] OTHER -> CnameScanKeepsEvery(Tail(id_records), link, removals, found)

RECURSIVE CnameScan(_, _, _, _)
\* the loop over id_records of the Cname arm (aws.rs 589-615, linode.rs 406-433)
CnameScan(id_records, link, removals, found) ==
    IF id_records = <<>> THEN [removals |-> removals, found |-> found]
    ELSE LET r == Head(id_records)
         IN  CASE r.record_type = "A" ->
                    CnameScan(Tail(id_records), link, Append(removals, r.id), found)
               [] r.record_type = "CNAME" ->
                    IF ~found /\ Cardinality(r.targets) = 1 /\ r.targets = {link}
                    THEN CnameScan(Tail(id_records), link, removals, TRUE)
                    ELSE CnameScan(Tail(id_records), link, Append(removals, r.id), found)
               [] OTHER -> CnameScan(Tail(id_records), link, removals, found)

RECURSIVE RouteIdsOnlyA(_)
\* the A records of id_records alone, by id
RouteIdsOnlyA(id_records) ==
    IF id_records = <<>> THEN <<>>
    ELSE IF Head(id_records).record_type \in {"A"}
    THEN <<Head(id_records).id>> \o RouteIdsOnlyA(Tail(id_records))
    ELSE RouteIdsOnlyA(Tail(id_records))

RECURSIVE RouteIds(_)
\* the A and CNAME records of id_records, by id (the None arm)
RouteIds(id_records) ==
    IF id_records = <<>> THEN <<>>
    ELSE IF Head(id_records).record_type \in {"A", "CNAME"}
    THEN <<Head(id_records).id>> \o RouteIds(Tail(id_records))
    ELSE RouteIds(Tail(id_records))

\* the match on value of update_dns_route, after the listing
RouteArms(prov, st, name, ttl_sec, id_records, value, env) ==
    CASE value.kind = "A" ->
            IF prov = "aws"
            THEN aws_upsert_a_record(st, name, ttl_sec, id_records, value.addrs, env)
            ELSE linode_upsert_a_record(st, name, ttl_sec, id_records,
                                        DOMAIN value.addrs, env)
      [] value.kind = "Cname" ->
            LET scan == CnameScan(id_records, value.text, <<>>, FALSE)
                st1 == DeleteAll(prov, st, scan.removals, env)
            IN  IF ~st1.ok \/ scan.found THEN {st1}
                ELSE {create_domain_record(prov, st1,
                        ExtendedDnsRecord(0, name, "CNAME", {value.text}, ttl_sec, NoDc),
                        env)}
      [] value.kind = "None" -> {DeleteAll(prov, st, RouteIds(id_records), env)}
      [] OTHER -> {[st EXCEPT !.log = Append(@, TraceLine(<<>>, "non route record ignored", {}))]}

\* CloudDns::update_dns_route on the zone of st: the set of its outcomes
update_dns_route(prov, st, domain, hostname, value, ttl, env) ==
    LET st1 == list_request(prov, get_domain_id(prov, [st EXCEPT !.log = <<>>], domain, env),
                            env)
        name == IF prov = "aws" THEN fully_qualified(hostname, domain) ELSE hostname
        id_records == FilterRecords(ListRecords(prov, PageOf(st1.zone, env)), name, {})
    IN  IF ~st1.ok THEN {st1}
        ELSE {Settle(o) : o \in RouteArms(prov, st1, name, ttl_sec_of(ttl), id_records,
                                          value, env)}

----------------------------------------------------------------------------
(* update_dns_metadata of both adapters *)

\* a selection that marks no TXT record for removal
TxtIdsNone(id_records) == <<>>

RECURSIVE TxtIds(_)
TxtIds(id_records) ==
    IF id_records = <<>> THEN <<>>
    ELSE IF Head(id_records).record_type = "TXT"
    THEN <<Head(id_records).id>> \o TxtIds(Tail(id_records))
    ELSE TxtIds(Tail(id_records))

\* the text of the TXT record an adapter creates
TxtTarget(prov, text) == IF prov = "aws" THEN double_quoted(text) ELSE text

MetadataArms(prov, st, name, ttl_sec, id_records, value, env) ==
    CASE value.kind = "Txt" ->
            LET st1 == DeleteAll(prov, st, TxtIds(id_records), env)
            IN  IF ~st1.ok THEN st1
                ELSE create_domain_record(prov, st1,
                        ExtendedDnsRecord(0, name, "TXT", {TxtTarget(prov, value.text)},
                                          ttl_sec, NoDc),
                        env)
      [] value.kind = "None" -> DeleteAll(prov, st, TxtIds(id_records), env)
      [] OTHER -> [st EXCEPT !.log = Append(@, TraceLine(<<>>, "non-metadata record ignored", {}))]

\* update_dns_metadata with a filter that takes the records of every hostname
update_dns_metadata_any_host(prov, st, domain, hostname, value, ttl, env) ==
    LET st1 == list_request(prov, get_domain_id(prov, [st EXCEPT !.log = <<>>], domain, env),
                            env)
        name == IF prov = "aws" THEN fully_qualified(hostname, domain) ELSE hostname
        id_records == FilterRecordsAnyName(ListRecords(prov, PageOf(st1.zone, env)), name,
                                           {"TXT", "MX", "SRV"})
    IN  IF ~st1.ok THEN st1
        ELSE Settle(MetadataArms(prov, st1, name, ttl_sec_of(ttl), id_records, value, env))

update_dns_metadata(prov, st, domain, hostname, value, ttl, env) ==
    LET st1 == list_request(prov, get_domain_id(prov, [st EXCEPT !.log = <<>>], domain, env),
                            env)
        name == IF prov = "aws" THEN fully_qualified(hostname, domain) ELSE hostname
        id_records == FilterRecords(ListRecords(prov, PageOf(st1.zone, env)), name, {"TXT", "MX", "SRV"})
    IN  IF ~st1.ok THEN st1
        ELSE Settle(MetadataArms(prov, st1, name, ttl_sec_of(ttl), id_records, value, env))

----------------------------------------------------------------------------
(* read_dns_records of both adapters *)

\* HashMap::insert
Put(m, k, v) == [x \in DOMAIN m \cup {k} |-> IF x = k THEN v ELSE m[x]]

RECURSIVE AwsReadScan(_, _, _)
\* the loop of aws.rs 395-436: the two maps, or the parse error
AwsReadScan(list, a_ipgeos, other) ==
    IF list = <<>> THEN [err |-> FALSE, a |-> a_ipgeos, other |-> other]
    ELSE LET r == Head(list)
             ips == ParsedIps(r.targets)
             entry == IF r.name \in DOMAIN a_ipgeos THEN a_ipgeos[r.name] ELSE <<>>
         IN  CASE r.record_type = "A" ->
                    IF "" \in ips THEN [err |-> TRUE, a |-> a_ipgeos, other |-> other]
                    ELSE AwsReadScan(Tail(list),
                            Put(a_ipgeos, r.name,
                                [ip \in DOMAIN entry \cup ips |->
                                    IF ip \in ips THEN r.datacenter ELSE entry[ip]]),
                            other)
               [] r.record_type = "CNAME" /\ Cardinality(r.targets) = 1 ->
                    AwsReadScan(Tail(list), a_ipgeos,
                                Put(other, r.name, DnsRecord_Cname(TargetOf(r))))
               [] r.record_type = "TXT" /\ Cardinality(r.targets) = 1 ->
                    AwsReadScan(Tail(list), a_ipgeos,
                                Put(other, r.name, DnsRecord_Txt(TargetOf(r))))
               [] OTHER -> AwsReadScan(Tail(list), a_ipgeos, other)

RECURSIVE LinodeReadScan(_, _, _)
\* the loop of linode.rs 248-272
LinodeReadScan(list, a_ips, other) ==
    IF list = <<>> THEN [err |-> FALSE, a |-> a_ips, other |-> other]
    ELSE LET r == Head(list)
             ip == IpAddr_from_str(TargetOf(r))
             entry == IF r.name \in DOMAIN a_ips THEN a_ips[r.name] ELSE <<>>
         IN  CASE r.record_type = "A" ->
                    IF ip = "" THEN [err |-> TRUE, a |-> a_ips, other |-> other]
                    ELSE LinodeReadScan(Tail(list),
                            Put(a_ips, r.name, [i \in DOMAIN entry \cup {ip} |-> NoDc]),
                            other)
               [] r.record_type = "CNAME" ->
                    LinodeReadScan(Tail(list), a_ips,
                                   Put(other, r.name, DnsRecord_Cname(TargetOf(r))))
               [] r.record_type = "TXT" ->
                    LinodeReadScan(Tail(list), a_ips,
                                   Put(other, r.name, DnsRecord_Txt(TargetOf(r))))
               [] OTHER -> LinodeReadScan(Tail(list), a_ips, other)

\* the DnsRecordSet built from the two maps: a set of <<hostname, record>>
ReadSet(prov, domain, scan) ==
    LET rel(h) == IF prov = "aws" THEN sans_domain(domain, h) ELSE h
    IN  {<<rel(h), scan.other[h]>> : h \in DOMAIN scan.other}
        \cup {<<rel(h), DnsRecord_A(scan.a[h])>> : h \in DOMAIN scan.a}

\* CloudDns::read_dns_records: the call state and the set read
read_dns_records(prov, st, domain, env) ==
    LET st1 == list_request(prov, get_domain_id(prov, [st EXCEPT !.log = <<>>], domain, env),
                            env)
        list == ListRecords(prov, PageOf(st1.zone, env))
        scan == IF prov = "aws" THEN AwsReadScan(list, <<>>, <<>>)
                ELSE LinodeReadScan(list, <<>>, <<>>)
    IN  IF ~st1.ok THEN [st |-> st1, out |-> {}]
        ELSE IF scan.err
        THEN [st |-> [st1 EXCEPT !.ok = FALSE, !.err = "FailedDependency"], out |-> {}]
        ELSE [st |-> st1, out |-> ReadSet(prov, domain, scan)]

----------------------------------------------------------------------------
(* src/src/dns/cloud_dns.rs: DnsRecordSet and CloudDns::update_dns_records *)

\* A DnsRecordSet is a set of <<hostname, DnsRecord>>.  metadata() and routes()
\* collect the entries of some kinds into a HashMap by hostname: of several
\* entries of one hostname the one walked last stays, so every choice of one
\* entry for each hostname is a possible map.
MapsOf(record_set, kinds) ==
    LET hosts == {p[1] : p \in {q \in record_set : q[2].kind \in kinds}}
    IN  {f \in [hosts -> {p[2] : p \in record_set}] :
            \A h \in hosts : <<h, f[h]>> \in record_set /\ f[h].kind \in kinds}

metadata(record_set) == MapsOf(record_set, {"Txt"})

routes(record_set) == MapsOf(record_set, {"A", "Cname"})

\* One call of a handler of the adapter, with its arguments
Entry(kind, host, value, ttl) == [kind |-> kind, host |-> host, value |-> value, ttl |-> ttl]

\* the handler calls of one loop of update_dns_records over map m, walked in
\* the order given
LoopEntries(kind, m, order) ==
    [i \in 1..Len(order) |-> Entry(kind, order[i], m[order[i]], NoTtl)]

\* update_dns_records with its two loops in the other order: the routes, then
\* the metadata
update_dns_records_routes_first(record_set) ==
    UNION {UNION {{LoopEntries("route", r, ro) \o LoopEntries("metadata", m, mo) :
                      mo \in Orderings(DOMAIN m), ro \in Orderings(DOMAIN r)} :
                    r \in routes(record_set)} :
             m \in metadata(record_set)}

\* CloudDns::update_dns_records: the handler calls it makes one after the
\* other, for record_set.metadata() and then for record_set.routes(), each
\* awaited before the next and the first error ending the call.  A HashMap is
\* walked in an order the program does not choose, so every order is one of
\* the sequences.
update_dns_records(record_set) ==
    UNION {UNION {{LoopEntries("metadata", m, mo) \o LoopEntries("route", r, ro) :
                      mo \in Orderings(DOMAIN m), ro \in Orderings(DOMAIN r)} :
                    r \in routes(record_set)} :
             m \in metadata(record_set)}

\* the outcomes of the handler of entry e on the zone of st: the call state it
\* leaves and the record set it returns (read_dns_records only)
RunEntry(prov, e, st, domain, env) ==
    CASE e.kind = "route" ->
            {[st |-> o, out |-> {}] :
                o \in update_dns_route(prov, st, domain, e.host, e.value, e.ttl, env)}
      [] e.kind = "metadata" ->
            {[st |-> update_dns_metadata(prov, st, domain, e.host, e.value, e.ttl, env),
              out |-> {}]}
      [] OTHER -> {read_dns_records(prov, st, domain, env)}

----------------------------------------------------------------------------
(* src/src/log/string_logger.rs: StringLogger.  A line is a sequence of      *)
(* tokens and the empty sequence is the empty string.                       *)

NewLine == "\n"

\* LoggerInner: the lines and the warning flag
LoggerInner(lines, warn) == [lines |-> lines, warn |-> warn]

\* LoggerInner::default()
NewInner == LoggerInner(<<>>, FALSE)

\* a StringLogger value: its debug flag and the mutex and inner it shares
StringLogger(debug, inner) == [debug |-> debug, inner |-> inner]

\* StringLogger::reference: a second value that shares the inner
reference(logger) == StringLogger(logger.debug, logger.inner)

RECURSIVE Join(_)
\* lines.join("\n")
Join(lines) ==
    IF lines = <<>> THEN <<>>
    ELSE IF Len(lines) = 1 THEN lines[1]
    ELSE lines[1] \o <<NewLine>> \o Join(Tail(lines))

RECURSIVE Replaced(_, _)
\* text.replace('\n', "\n{indentation}")
Replaced(text, indentation) ==
    IF text = <<>> THEN <<>>
    ELSE (IF Head(text) = NewLine THEN <<NewLine>> \o indentation ELSE <<Head(text)>>)
         \o Replaced(Tail(text), indentation)

\* format!("{indentation}{}", text.replace(..))
Indented(text, indentation) == indentation \o Replaced(text, indentation)

\* the body of trace, under the lock: push the line
trace(inner, line) == [inner EXCEPT !.lines = Append(@, line)]

\* the body of warn, under the lock: push the line and set the flag
warn(inner, line) == [inner EXCEPT !.lines = Append(@, line), !.warn = TRUE]

\* the body of indent, under the lock: push the indented line
indent(inner, line, indentation) ==
    [inner EXCEPT !.lines = Append(@, Indented(line, indentation))]

\* the body of to_string, under the lock
to_string(inner) == Join(inner.lines)

\* StringLogger::to_string: the empty text when lock() returns Err
StringLogger_to_string(inner, poisoned) == IF poisoned THEN <<>> ELSE to_string(inner)

\* StringLogger::contains_warnings: false when lock() returns Err
contains_warnings(inner, poisoned) == ~poisoned /\ inner.warn

\* Clone::clone: a logger of its own with one line, the text to_string gave,
\* and the flag contains_warnings gave
clone(text, warning) == LoggerInner(<<text>>, warning)

\* the body of append, under the two locks: the two inners after it.  The
\* indentation is a sequence of tokens, or None.
append(to_inner, from_inner, indentation) ==
    IF from_inner.lines = <<>> THEN [to |-> to_inner, from |-> from_inner]
    ELSE [to |-> [lines |-> IF indentation = "None"
                            THEN to_inner.lines \o from_inner.lines
                            ELSE Append(to_inner.lines,
                                        Indented(Join(from_inner.lines), indentation)),
                  warn |-> to_inner.warn \/ from_inner.warn],
          from |-> [from_inner EXCEPT !.lines = <<>>]]

\* the body of prepend, under the two locks
prepend(to_inner, from_inner) ==
    IF from_inner.lines = <<>> THEN [to |-> to_inner, from |-> from_inner]
    ELSE [to |-> [lines |-> from_inner.lines \o to_inner.lines,
                  warn |-> to_inner.warn \/ from_inner.warn],
          from |-> [from_inner EXCEPT !.lines = <<>>]]

\* StringLogger::extend: append without indentation
extend(to_inner, from_inner) == append(to_inner, from_inner, "None")

\* no logger shared by threads
NoLogs == [inner |-> <<>>, mutex |-> <<>>, thr |-> <<>>, n |-> 0]

----------------------------------------------------------------------------
(* The state machine: one provider with one zone, and the callers of one    *)
(* adapter, each of whom makes a call of CloudDns                           *)

\* the longest zone the model starts from
MaxZone == 3

Domain == <<"d">>
HostA == <<"a">>
HostB == <<"b">>
HostC == <<"c">>

Ip1 == "1.1.1.1"
Ip2 == "::1"
Ip3 == "3.3.3.3"

\* a literal of Ip2 that is not its canonical text
Ip2Long == <<"0:0:0:0:0:0:0:1">>

DcVirginia == <<"aws", SLASH, "us-east-1">>
DcIad == <<"linode", SLASH, "us-iad">>

Target1 == <<"t1">>
Target2 == <<"t2">>

OldText == <<QUOTE, "old", QUOTE>>

\* the name under which a provider holds the records of a relative hostname
LiveName(prov, h) ==
    IF prov = "aws" THEN AwsStoredName(fully_qualified(h, Domain)) ELSE h

\* the records a zone of the model may hold before the first call
AwsUniverse ==
    {ZoneRecord(LiveName("aws", HostA), "A", {<<Ip1>>}, 30, <<>>, <<>>, FALSE),
     ZoneRecord(LiveName("aws", HostA), "A", {<<Ip1>>, Ip2Long}, 30,
                <<"us-east-1">>, <<"us-east-1">>, FALSE),
     ZoneRecord(LiveName("aws", HostA), "A", {<<Ip1>>}, 30, <<"x">>, <<"us-east-1">>, FALSE),
     ZoneRecord(LiveName("aws", HostA), "A", {<<"bad">>}, 30, <<"w">>, <<>>, FALSE),
     ZoneRecord(LiveName("aws", HostA), "A", {}, 30, <<>>, <<>>, TRUE),
     ZoneRecord(LiveName("aws", HostA), "CNAME", {Target1}, 30, <<>>, <<>>, FALSE),
     ZoneRecord(LiveName("aws", HostA), "CNAME", {Target1}, 30, <<"x">>, <<>>, FALSE),
     ZoneRecord(LiveName("aws", HostA), "CNAME", {Target2}, 60, <<>>, <<>>, FALSE),
     ZoneRecord(LiveName("aws", HostA), "TXT", {OldText}, 30, <<>>, <<>>, FALSE),
     ZoneRecord(LiveName("aws", HostA), "MX", {<<"mail">>}, 30, <<>>, <<>>, FALSE),
     ZoneRecord(LiveName("aws", HostB), "A", {<<Ip1>>}, 30, <<>>, <<>>, FALSE)}

LinodeUniverse ==
    {ZoneRecord(HostA, "A", {<<Ip1>>}, 30, <<>>, <<>>, FALSE),
     ZoneRecord(HostA, "A", {Ip2Long}, 30, <<>>, <<>>, FALSE),
     ZoneRecord(HostA, "A", {<<"bad">>}, 30, <<>>, <<>>, FALSE),
     ZoneRecord(HostA, "CNAME", {Target1}, 30, <<>>, <<>>, FALSE),
     ZoneRecord(HostA, "CNAME", {Target2}, 60, <<>>, <<>>, FALSE),
     ZoneRecord(HostA, "TXT", {OldText}, 30, <<>>, <<>>, FALSE),
     ZoneRecord(HostA, "MX", {<<"mail">>}, 30, <<>>, <<>>, FALSE),
     ZoneRecord(HostB, "A", {<<Ip1>>}, 30, <<>>, <<>>, FALSE)}

\* Route 53 holds one record for a name, a type and a set identifier
AwsWellFormed(z) ==
    \A i, j \in 1..Len(z) :
        (z[i].name = z[j].name /\ z[i].type = z[j].type /\ z[i].setid = z[j].setid)
            => i = j

Zones(prov) ==
    IF prov = "aws"
    THEN {z \in UNION {[1..n -> AwsUniverse] : n \in 0..MaxZone} : AwsWellFormed(z)}
    ELSE UNION {[1..n -> LinodeUniverse] : n \in 0..MaxZone}

\* the A maps a call may ask for
DcChoices == {NoDc, DcVirginia, DcIad}

\* every map of one or two addresses, and the maps of three addresses whose
\* first two share their datacenter
AddrMaps ==
    [{Ip1} -> DcChoices] \cup [{Ip1, Ip2} -> DcChoices]
    \cup {m \in [{Ip1, Ip2, Ip3} -> DcChoices] : m[Ip1] = m[Ip2]}

\* the <<value, ttl>> a call of update_dns_route may be given
RouteInputs ==
    (({DnsRecord_A(m) : m \in AddrMaps}
      \cup {DnsRecord_Cname(Target1), DnsRecord_Cname(Target2), DnsRecord_None,
            DnsRecord_Txt(<<"new">>)}) \X {NoTtl})
    \cup ({new_a(Ip1), new_ag(Ip2, DcVirginia), DnsRecord_Cname(Target1)} \X {0, 60})

\* the <<value, ttl>> a call of update_dns_metadata may be given
MetadataInputs ==
    ({DnsRecord_Txt(<<"new">>), DnsRecord_Txt(OldText), DnsRecord_Txt(<<"old">>),
      DnsRecord_None, DnsRecord_Cname(Target1)} \X {NoTtl})
    \cup ({DnsRecord_Txt(<<"new">>)} \X {0, 60})

\* the record of the call that returned last and ran with no other call under
\* way: its arguments, what the caller got (ok, err, log, out), the provider
\* calls it made (ops) and the zone before it
Last(call, host, value, set, ttl, o, out, pre) ==
    [call |-> call, host |-> host, value |-> value, set |-> set, ttl |-> ttl,
     ok |-> o.ok, err |-> o.err, ops |-> o.ops, log |-> IF o.ok THEN o.log ELSE <<>>,
     out |-> out, pre |-> pre]

Start(z) == CallState(z, {}, <<>>, <<>>, TRUE, "")

\* no call has returned, or a call is under way, or the call that returned
\* last ran beside another
NoCall == Last("none", <<>>, DnsRecord_None, {}, NoTtl, Start(<<>>), {}, <<>>)

\* DnsRecordSetBuilder::default(): the empty record set.  latest is the
\* history of the insertions, the entry inserted last for each hostname and
\* kind; n counts the insertions and done tells that build() has consumed the
\* builder
NewBuilder == [set |-> {}, latest |-> {}, n |-> 0, done |-> FALSE]

\* the account of the caller at the provider: its zones in the order of the
\* zone listing, and the number of zones (zpage) and of records (page) the
\* provider puts in one answer of a listing, 0 for all of them.  OneZone is
\* the account with the one zone d and answers that hold everything.
Account(domains, zpage, page) == [domains |-> domains, zpage |-> zpage, page |-> page]

OneZone == Account(ProviderDomains, 0, 0)

\* no caller of the adapter
NoCalls == [run |-> <<>>, wire |-> <<>>]

\* A call of CloudDns that a caller makes on the adapter.  The handlers are
\* async fn(&self): each awaits one provider request after the other and
\* holds no lock, so the requests of the calls of several callers reach the
\* provider in any order.  pc is where the call stands: "call" (not made
\* yet), "zones" (the zone listing of its next handler is next), "list" (the
\* record listing is next), "run" (the deletions and creations the handler
\* decided from its listing are next), "done" (it has returned).  todo are
\* the handler calls still to make, plan the deletions and creations still to
\* send, snap the record ids of the listing, res what the handler returns
\* when the provider takes the plan; ops, log, ok, err and out are the
\* requests sent and what the caller gets; envs is what the call may meet at
\* the provider; pre is the zone when the call was made, after the calls that
\* had returned by then, alone whether no other call was under way while
\* this one ran, again whether it repeats the call before it, which ran alone
\* and succeeded.
Caller(call, host, value, set, ttl, envs) ==
    [call |-> call, host |-> host, value |-> value, set |-> set, ttl |-> ttl,
     envs |-> envs, pc |-> "call", todo |-> <<>>, plan |-> <<>>, snap |-> <<>>,
     res |-> [ok |-> TRUE, err |-> "", log |-> <<>>, out |-> {}],
     ops |-> <<>>, log |-> <<>>, ok |-> TRUE, err |-> "", out |-> {},
     pre |-> <<>>, after |-> {}, alone |-> TRUE, again |-> FALSE]

\* the adapter with the callers of run.  ids are the record ids Linode has
\* given to the records of the zone, position by position, and next is the id
\* of the record it creates next; Route 53 names a record by its content.
\* wire is a history that no call reads: the requests the provider has
\* received, in their order, each with its caller, kept when watch is set.
Callers(prov, z, run) ==
    [run |-> run, wire |-> <<>>, watch |-> FALSE,
     ids |-> IF prov = "linode" THEN [i \in 1..Len(z) |-> i] ELSE <<>>,
     next |-> IF prov = "linode" THEN Len(z) + 1 ELSE 0]

\* the handler calls of call c, in their order
EntriesOf(c) ==
    CASE c.call = "records" -> update_dns_records(c.set)
      [] c.call = "read" -> {<<Entry("read", <<>>, DnsRecord_None, NoTtl)>>}
      [] OTHER -> {<<Entry(c.call, c.host, c.value, c.ttl)>>}

\* the calls under way beside call i, and those that have returned
UnderWay(i) == {j \in DOMAIN calls.run \ {i} : calls.run[j].pc \notin {"call", "done"}}
Returned(i) == {j \in DOMAIN calls.run \ {i} : calls.run[j].pc = "done"}

\* call c, made now, repeats call d, which returned last
RepeatsCall(c, d) ==
    /\ d.ok /\ d.alone
    /\ d.call = c.call /\ d.host = c.host /\ d.value = c.value /\ d.set = c.set
    /\ d.ttl = c.ttl

\* call i goes on as c with the calls run: the provider has received the
\* request c has sent and holds ids and next, and when c has returned and ran
\* alone, last is what its caller got
Proceeds(i, c, run, ids, next) ==
    /\ calls' = [run |-> [run EXCEPT ![i] = c],
                 wire |-> IF calls.watch /\ Len(c.ops) > Len(calls.run[i].ops)
                          THEN Append(calls.wire, [by |-> i, op |-> c.ops[Len(c.ops)]])
                          ELSE calls.wire,
                 watch |-> calls.watch, ids |-> ids, next |-> next]
    /\ last' = IF c.pc = "done" /\ c.alone
               THEN Last(c.call, c.host, c.value, c.set, c.ttl, c, c.out, c.pre)
               ELSE NoCall
    /\ again' = (c.pc = "done" /\ c.alone /\ c.again)

\* the handler of the first entry of call c has returned c.res: its error
\* ends the call (.await?), else its lines join the log of the call
\* (logger.trace) and the next handler call follows
Ended(c) ==
    IF ~c.res.ok
    THEN [c EXCEPT !.pc = "done", !.ok = FALSE, !.err = c.res.err, !.plan = <<>>]
    ELSE [c EXCEPT !.pc = IF Len(c.todo) = 1 THEN "done" ELSE "zones",
                   !.log = @ \o c.res.log, !.out = c.res.out, !.todo = Tail(@),
                   !.plan = <<>>]

\* get_domain_id of the next handler call of call i: the zone listing.  The
\* first one is when the call is made.
Resolve(i) ==
    LET c == calls.run[i]
        first == c.pc = "call"
        run == IF first
               THEN [j \in DOMAIN calls.run |->
                       IF j \in UnderWay(i) THEN [calls.run[j] EXCEPT !.alone = FALSE]
                       ELSE calls.run[j]]
               ELSE calls.run
        made == IF first
                THEN [c EXCEPT !.pre = zone, !.after = Returned(i),
                               !.alone = UnderWay(i) = {},
                               !.again = /\ UnderWay(i) = {}
                                         /\ \E j \in Returned(i) :
                                               /\ RepeatsCall(c, calls.run[j])
                                               /\ Returned(i) \ {j} \subseteq
                                                      calls.run[j].after]
                ELSE c
    IN  /\ c.pc \in {"call", "zones"}
        /\ \E todo \in (IF first THEN EntriesOf(c) ELSE {c.todo}), env \in c.envs :
              LET st == get_domain_id(provider, CallState(zone, {}, c.ops, <<>>, TRUE, ""),
                                      Domain, env)
              IN  Proceeds(i,
                     IF todo = <<>> THEN [made EXCEPT !.pc = "done"]
                     ELSE IF st.ok
                     THEN [made EXCEPT !.todo = todo, !.ops = st.ops, !.pc = "list"]
                     ELSE [made EXCEPT !.todo = todo, !.ops = st.ops, !.pc = "done",
                                       !.ok = FALSE, !.err = st.err],
                     run, calls.ids, calls.next)
        /\ UNCHANGED <<provider, zone, built, account, logs>>

\* the record listing of the handler of call i, and what the handler decides
\* from it: the deletions and creations it will send, one by one
List(i) ==
    LET c == calls.run[i]
        sent == Len(c.ops)
    IN  /\ c.pc = "list"
        /\ \E env \in c.envs :
              \E r \in RunEntry(provider, Head(c.todo),
                                CallState(zone, {}, SubSeq(c.ops, 1, sent - 1), <<>>, TRUE, ""),
                                Domain, env) :
                 LET ops == r.st.ops
                     c1 == [c EXCEPT !.ops = Append(@, ops[sent + 1]),
                                     !.plan = SubSeq(ops, sent + 2, Len(ops)),
                                     !.snap = calls.ids,
                                     !.res = [ok |-> r.st.ok, err |-> r.st.err,
                                              log |-> r.st.log, out |-> r.out],
                                     !.envs = IF \E k \in (sent + 1)..Len(ops) : ~ops[k].ok
                                              THEN {NoFault} ELSE @,
                                     !.pc = "run"]
                 IN  /\ Len(ops) > sent /\ SubSeq(ops, 1, sent) = c.ops
                     /\ Proceeds(i, IF c1.plan = <<>> THEN Ended(c1) ELSE c1, calls.run,
                                 calls.ids, calls.next)
        /\ UNCHANGED <<provider, zone, built, account, logs>>

\* the provider carries out a creation
ProviderCreate(prov, z, rec) == IF prov = "aws" THEN AwsUpsert(z, rec) ELSE LinodePost(z, rec)

\* the next deletion or creation of the plan of call i.  A request that fails
\* leaves the zone as it is.  Route 53 deletes the record set that is equal to
\* the one of the request and refuses when there is none, which ends the call;
\* Linode deletes the record of the id and answers 404 when there is none, a
\* status the adapter does not read.
Mutate(i) ==
    LET c == calls.run[i]
        op == Head(c.plan)
        at == IF op.op # "delete" THEN {}
              ELSE IF provider = "aws" THEN {k \in 1..Len(zone) : zone[k] = op.rec}
              ELSE {k \in 1..Len(zone) : calls.ids[k] = c.snap[op.id]}
        refused == op.ok /\ op.op = "delete" /\ at = {}
        stops == refused /\ provider = "aws"
        creates == op.ok /\ op.op = "create"
        c1 == [c EXCEPT !.ops = Append(@, [op EXCEPT !.ok = op.ok /\ ~refused]),
                        !.plan = Tail(@)]
    IN  /\ c.pc = "run"
        /\ zone' = IF ~op.ok THEN zone
                   ELSE IF op.op = "delete" THEN SelectIdx(zone, at)
                   ELSE ProviderCreate(provider, zone, op.rec)
        /\ Proceeds(i,
              IF stops
              THEN [c1 EXCEPT !.pc = "done", !.ok = FALSE, !.err = "Anyhow", !.plan = <<>>]
              ELSE IF c1.plan = <<>> THEN Ended(c1) ELSE c1,
              calls.run,
              IF provider = "aws" \/ ~op.ok THEN calls.ids
              ELSE IF op.op = "delete" THEN SelectIdx(calls.ids, at)
              ELSE Append(calls.ids, calls.next),
              IF provider = "linode" /\ creates THEN calls.next + 1 ELSE calls.next)
        /\ UNCHANGED <<provider, built, account, logs>>

\* CloudDns::update_dns_route: the next provider request of one of its calls
UpdateDnsRoute ==
    \E i \in DOMAIN calls.run :
        /\ calls.run[i].call = "route"
        /\ (Resolve(i) \/ List(i) \/ Mutate(i))

\* CloudDns::update_dns_metadata: the next provider request of one of its calls
UpdateDnsMetadata ==
    \E i \in DOMAIN calls.run :
        /\ calls.run[i].call = "metadata"
        /\ (Resolve(i) \/ List(i) \/ Mutate(i))

\* CloudDns::read_dns_records: the next provider request of one of its calls
ReadDnsRecords ==
    \E i \in DOMAIN calls.run :
        /\ calls.run[i].call = "read"
        /\ (Resolve(i) \/ List(i))

\* CloudDns::update_dns_records: the next provider request of one of its calls
UpdateDnsRecords ==
    \E i \in DOMAIN calls.run :
        /\ calls.run[i].call = "records"
        /\ (Resolve(i) \/ List(i) \/ Mutate(i))

\* the calls of the callers
RouteCall(host, value, ttl, envs) == Caller("route", host, value, {}, ttl, envs)
MetadataCall(host, value, ttl, envs) == Caller("metadata", host, value, {}, ttl, envs)
ReadCall(envs) == Caller("read", <<>>, DnsRecord_None, {}, NoTtl, envs)
RecordsCall(set, envs) == Caller("records", <<>>, DnsRecord_None, set, NoTtl, envs)

\* the longest zone on which a second caller makes a call
MaxSharedZone == 1

\* the calls of two callers on one zone
SharedCalls ==
    {RouteCall(HostB, DnsRecord_Cname(Target2), NoTtl, {NoFault}),
     RouteCall(HostA, DnsRecord_Cname(Target2), NoTtl, {NoFault}),
     RouteCall(HostA, new_a(Ip1), NoTtl, {NoFault}),
     MetadataCall(HostA, DnsRecord_Txt(<<"new">>), NoTtl, {NoFault}),
     ReadCall({NoFault})}

\* the callers of the adapter on zone z: one caller, who makes a call of
\* solo, or on a zone of at most MaxSharedZone records two callers, of whom
\* the one makes a call of firsts and the other the same call or a call of
\* seconds, each at any time
CallersOf(z, solo, firsts, seconds) ==
    {<<c>> : c \in solo}
    \cup (IF Len(z) > MaxSharedZone THEN {}
          ELSE UNION {{<<c, d>> : d \in seconds \cup {c}} : c \in firsts})

\* the calls of aws_dns_update_tests and linode_dns_tests, on three hostnames
TestCalls ==
    <<ReadCall({NoFault}),
      MetadataCall(HostA, DnsRecord_Txt(<<"Foo9876">>), NoTtl, {NoFault}),
      RouteCall(HostB, DnsRecord_Cname(<<"foo", DOT, "softbear", DOT, "com">>), NoTtl,
                {NoFault}),
      RouteCall(HostC, new_a(IpAddr_from_str(<<"127.0.0.1">>)), NoTtl, {NoFault})>>

FirstCalls ==
    {RouteCall(HostA, in[1], in[2], {NoFault}) : in \in RouteInputs}
    \cup {MetadataCall(HostA, in[1], in[2], {NoFault}) : in \in MetadataInputs}
    \cup {ReadCall({NoFault})}

Init ==
    /\ provider \in {"aws", "linode"}
    /\ zone \in Zones(provider)
    /\ last = NoCall
    /\ again = FALSE
    /\ built = NewBuilder
    /\ logs = NoLogs
    /\ account = OneZone
    /\ calls \in {Callers(provider, zone, run) :
                    run \in CallersOf(zone, FirstCalls, SharedCalls, SharedCalls)
                            \cup (IF zone = <<>> THEN {TestCalls} ELSE {})}

Next == UpdateDnsRoute \/ UpdateDnsMetadata \/ ReadDnsRecords

Spec == Init /\ [][Next]_vars

\* the record sets a call of update_dns_records may be given
RecordSets ==
    {{<<HostA, DnsRecord_A(m)>>} :
        m \in [{Ip1} -> DcChoices] \cup [{Ip1, Ip2} -> DcChoices]}
    \cup {{<<HostA, DnsRecord_Cname(Target1)>>},
          {<<HostA, DnsRecord_Txt(<<"new">>)>>},
          {<<HostA, DnsRecord_Txt(OldText)>>, <<HostB, DnsRecord_Cname(Target2)>>},
          {<<HostA, DnsRecord_Txt(<<"new">>)>>, <<HostA, new_a(Ip1)>>},
          {<<HostA, DnsRecord_Txt(<<"new">>)>>, <<HostA, DnsRecord_Txt(<<"old">>)>>},
          {<<HostA, new_a(Ip1)>>, <<HostA, DnsRecord_Cname(Target1)>>},
          {<<HostA, new_a(Ip1)>>, <<HostB, new_ag(Ip2, DcVirginia)>>},
          {}}

RecordsCalls == {RecordsCall(set, {NoFault}) : set \in RecordSets}

InitRecords ==
    /\ provider \in {"aws", "linode"}
    /\ zone \in Zones(provider)
    /\ last = NoCall
    /\ again = FALSE
    /\ built = NewBuilder
    /\ logs = NoLogs
    /\ account = OneZone
    /\ calls \in {Callers(provider, zone, run) :
                    run \in CallersOf(zone, RecordsCalls, RecordsCalls,
                                      {RouteCall(HostA, DnsRecord_Cname(Target2), NoTtl,
                                                 {NoFault})})}

NextRecords == UpdateDnsRecords \/ UpdateDnsRoute

SpecRecords == InitRecords /\ [][NextRecords]_vars

----------------------------------------------------------------------------
(* What the claims speak of *)

\* the creations and the deletions a call issued, in order
Creates(ops) == SelectSeq(ops, LAMBDA o : o.op = "create")
Deletes(ops) == SelectSeq(ops, LAMBDA o : o.op = "delete")
Mutations(ops) == SelectSeq(ops, LAMBDA o : o.op \in {"create", "delete"})

\* the positions of zone z that hold a record of hostname h and a type of types
At(z, h, types) ==
    {i \in 1..Len(z) : z[i].name = LiveName(provider, h) /\ z[i].type \in types}

\* the same, alias records of Route 53 left out (no listing shows them)
Listed(z, h, types) == {i \in At(z, h, types) : ~z[i].alias}

\* how often record r stands in zone z, and how often a call deleted it
CountIn(z, r) == Cardinality({i \in 1..Len(z) : z[i] = r})
CountDeleted(ops, r) ==
    Cardinality({i \in 1..Len(ops) : ops[i].op = "delete" /\ ops[i].ok /\ ops[i].rec = r})

\* two zones hold the same records, whatever their order
SameRecords(z1, z2) ==
    /\ Len(z1) = Len(z2)
    /\ \A i \in 1..Len(z1) : CountIn(z1, z1[i]) = CountIn(z2, z1[i])

\* the last call is a successful update_dns_route towards an A record
RouteA == last.call = "route" /\ last.ok /\ last.value.kind = "A"
RouteCname == last.call = "route" /\ last.ok /\ last.value.kind = "Cname"

\* the region under which a provider can hold an affinity group: the nearest
\* AWS region of the datacenter
RegionOf(dc) == IF dc = NoDc THEN <<>> ELSE nearest_aws_region(dc)

\* the <<ip, region>> pairs the live A records of hostname h hold together
LivePairs(z, h) ==
    UNION {{<<IpAddr_from_str(t), z[i].geo>> : t \in z[i].targets} : i \in At(z, h, {"A"})}

DesiredPairs(addrs) == {<<ip, RegionOf(addrs[ip])>> : ip \in DOMAIN addrs}

\* C1: after a successful update_dns_route towards A{...}, the live A records of
\* the hostname hold together exactly the desired (ip, affinity group) pairs,
\* and the hostname has no CNAME record.  (The claim as stated; the code breaks
\* it.)
C1_Converged ==
    RouteA => /\ LivePairs(zone, last.host) = DesiredPairs(last.value.addrs)
              /\ At(zone, last.host, {"CNAME"}) = {}

\* the last call is a successful update_dns_records that repeats the
\* successful call before it, with the same record set
RecordsAgain == again /\ last.call = "records" /\ last.ok

\* C2: a second update_dns_records with the same record set, right after a
\* successful first one, issues no create and no delete.  (The claim as stated;
\* the code breaks it.)
C2_SecondCallIdle == RecordsAgain => Mutations(last.ops) = <<>>

\* C3: the zone after the second of two successful update_dns_records with the
\* same record set holds the records it held after the first.  (The claim as
\* stated; the code breaks it.)
C3_SameEndState == RecordsAgain => SameRecords(zone, last.pre)

\* every type of record
AllTypes == {"A", "CNAME", "TXT", "MX"}

\* the last call is update_dns_route towards A{ip: no affinity}
SingleRoute(ip) ==
    last.call = "route" /\ last.value.kind = "A" /\ last.value.addrs = (ip :> NoDc)

\* record r is the un-affine A record of hostname h with the one target ip
IsPlainA(r, h, ip) ==
    /\ r.name = LiveName(provider, h) /\ r.type = "A"
    /\ r.targets = {IpAddr_to_string(ip)}
    /\ r.setid = <<>> /\ r.geo = <<>> /\ ~r.alias

\* C4: update_dns_route(domain, h, A{ip: no affinity}) on a zone with no record
\* at h succeeds with exactly one create, of the un-affine A record of h with
\* the one target ip, and no delete; the same call on a zone whose only record
\* at h is that A record issues no create and no delete.
C4_SingleRoute ==
    \A ip \in {Ip1, Ip2, Ip3} :
        SingleRoute(ip) =>
            /\ At(last.pre, last.host, AllTypes) = {} =>
                  /\ last.ok
                  /\ Len(Mutations(last.ops)) = 1
                  /\ Mutations(last.ops)[1].op = "create"
                  /\ Mutations(last.ops)[1].ok
                  /\ IsPlainA(Mutations(last.ops)[1].rec, last.host, ip)
                  /\ \E i \in At(zone, last.host, AllTypes) :
                        /\ IsPlainA(zone[i], last.host, ip)
                        /\ At(zone, last.host, AllTypes) = {i}
            /\ (\E i \in 1..Len(last.pre) :
                    /\ IsPlainA(last.pre[i], last.host, ip)
                    /\ At(last.pre, last.host, AllTypes) = {i}) =>
                  /\ last.ok
                  /\ Mutations(last.ops) = <<>>

\* the repeat of update_dns_route(domain, h, A{1.1.1.1: no affinity}) on the
\* zone the first call left, which was empty before it, has issued nothing
C4_Witness ==
    /\ again /\ SingleRoute(Ip1)
    /\ Len(zone) = 1 /\ IsPlainA(zone[1], HostA, Ip1)
    /\ zone = last.pre
    /\ Mutations(last.ops) = <<>>
    /\ \E j \in DOMAIN calls.run :
          /\ calls.run[j].pre = <<>> /\ calls.run[j].alone
          /\ Len(Mutations(calls.run[j].ops)) = 1

\* the last call is update_dns_route towards three addresses in two affinity
\* groups, {(ip1, g1), (ip2, g1), (ip3, g2)}, on a zone with no A record at the
\* hostname
TwoGroups ==
    /\ last.call = "route" /\ last.value.kind = "A"
    /\ \E g1, g2 \in DcChoices :
          g1 # g2 /\ last.value.addrs = (Ip1 :> g1 @@ Ip2 :> g1 @@ Ip3 :> g2)
    /\ At(last.pre, last.host, {"A"}) = {}

\* the addresses of affinity group g in the map addrs, as targets
GroupTargets(addrs, g) == {IpAddr_to_string(ip) : ip \in {i \in DOMAIN addrs : addrs[i] = g}}

\* the <<targets, region>> of the records a call created
Created(ops) == {<<Creates(ops)[k].rec.targets, Creates(ops)[k].rec.geo>> :
                    k \in 1..Len(Creates(ops))}

\* C5 as stated: the call issues exactly two creations of A records, one for
\* each affinity group, each with exactly the addresses of its group.  (The
\* code of LinodeDns breaks it.)
C5_TwoCreates ==
    TwoGroups =>
        /\ Len(Creates(last.ops)) = 2
        /\ {c[1] : c \in Created(last.ops)}
              = {GroupTargets(last.value.addrs, last.value.addrs[ip]) : ip \in {Ip1, Ip3}}

\* every record of hostname h and a type of types at the positions ids of zone
\* z has been deleted by the call, as often as it stood there
AllDeleted(z, ids, ops) ==
    \A i \in ids : CountDeleted(ops, z[i]) = CountIn(z, z[i])

\* every deletion of a CNAME record stands in ops before every creation
CnameDeletesFirst(ops) ==
    \A i, j \in 1..Len(ops) :
        (ops[i].op = "delete" /\ ops[i].rec.type = "CNAME" /\ ops[j].op = "create")
            => i < j

\* C6 as stated: update_dns_route towards A{...} on a hostname with a live CNAME
\* always deletes the CNAME, before any creation; update_dns_route towards Cname
\* on a hostname with live A records deletes every one of them.  (The code
\* returns on an unparsable live A record before any deletion, and never
\* deletes the alias records of Route 53.)
C6_Exclusive ==
    /\ (last.call = "route" /\ last.value.kind = "A") =>
          /\ AllDeleted(last.pre, At(last.pre, last.host, {"CNAME"}), last.ops)
          /\ CnameDeletesFirst(last.ops)
    /\ (last.call = "route" /\ last.value.kind = "Cname") =>
          AllDeleted(last.pre, At(last.pre, last.host, {"A"}), last.ops)

\* the positions of the listed CNAME records of hostname h in zone z whose one
\* target is text
Matching(z, h, text) == {i \in Listed(z, h, {"CNAME"}) : z[i].targets = {text}}

\* the least position of a non-empty set of positions
First(ids) == CHOOSE i \in ids : \A j \in ids : i <= j

\* the last call is update_dns_route towards Cname
TowardsCname == last.call = "route" /\ last.value.kind = "Cname"

\* C7 as stated: update_dns_route towards Cname(target) on a hostname with
\* exactly one CNAME of that target issues no delete and no create; with several
\* such CNAMEs it deletes all of them but the first, and only them, and creates
\* nothing.  (It fails when the hostname has other route records.)
C7_Stable ==
    TowardsCname =>
        LET m == Matching(last.pre, last.host, last.value.text)
        IN  /\ Cardinality(m) = 1 => Mutations(last.ops) = <<>>
            /\ Cardinality(m) > 1 =>
                  /\ Creates(last.ops) = <<>>
                  /\ zone = SelectIdx(last.pre, m \ {First(m)})

\* C7, amended: update_dns_route towards Cname(target) on a hostname with at
\* least one listed CNAME of that target succeeds and creates nothing; it keeps
\* the first such CNAME and deletes every other listed A and CNAME record of the
\* hostname, and nothing else.  With one such CNAME and no other listed route
\* record it issues no delete and no create.
C7_FirstMatchKept ==
    TowardsCname =>
        LET m == Matching(last.pre, last.host, last.value.text)
            others == Listed(last.pre, last.host, {"A", "CNAME"}) \ {First(m)}
        IN  m # {} =>
                /\ last.ok
                /\ Creates(last.ops) = <<>>
                /\ Len(Deletes(last.ops)) = Cardinality(others)
                /\ \A k \in 1..Len(Deletes(last.ops)) : Deletes(last.ops)[k].ok
                /\ AllDeleted(last.pre, others \ m, last.ops)
                /\ zone = SelectIdx(last.pre, others)
                /\ others = {} => Mutations(last.ops) = <<>>

\* two CNAME records of the hostname had the desired target: the call has kept
\* the first, deleted the second and created nothing
C7_Witness ==
    /\ TowardsCname /\ ~again
    /\ Cardinality(Matching(last.pre, last.host, last.value.text)) = 2
    /\ Len(last.pre) = 2
    /\ Len(Deletes(last.ops)) = 1 /\ Creates(last.ops) = <<>>
    /\ zone = <<last.pre[1]>>

\* the last call is update_dns_metadata towards Txt on a hostname with exactly
\* one TXT record
OneTxt ==
    /\ last.call = "metadata" /\ last.value.kind = "Txt"
    /\ Cardinality(At(last.pre, last.host, {"TXT"})) = 1

\* C8: update_dns_metadata towards Txt(new) on a hostname with exactly one TXT
\* record succeeds with exactly two changes: first the deletion of that
\* record, then the creation of a TXT record of the hostname with the one
\* value new (quoted on AwsDns); nothing else of the zone changes.  So it is
\* also when the record already holds the desired value.
C8_DeleteThenCreate ==
    OneTxt =>
        LET old == last.pre[First(At(last.pre, last.host, {"TXT"}))]
            m == Mutations(last.ops)
        IN  /\ last.ok
            /\ Len(m) = 2
            /\ m[1] = DeleteOp(old, First(At(last.pre, last.host, {"TXT"})), TRUE)
            /\ m[2].op = "create" /\ m[2].ok
            /\ m[2].rec.type = "TXT" /\ m[2].rec.name = LiveName(provider, last.host)
            /\ m[2].rec.targets = {TxtTarget(provider, last.value.text)}
            /\ zone = Append(SelectIdx(last.pre, At(last.pre, last.host, {"TXT"})), m[2].rec)

\* the TXT record already held the desired value and ttl: it has been deleted
\* and created again all the same
C8_Witness ==
    /\ OneTxt /\ ~again
    /\ last.value.text = OldText
    /\ Len(last.pre) = 2
    /\ Mutations(last.ops)[1].op = "delete"
    /\ Mutations(last.ops)[2].op = "create"
    /\ Mutations(last.ops)[1].rec = Mutations(last.ops)[2].rec
    /\ SameRecords(zone, last.pre)

\* the last call is update_dns_route or update_dns_metadata towards None
TowardsNone(call) == last.call = call /\ last.value.kind = "None"

\* the hostname of the last call had A, CNAME and TXT records before it
HadAll ==
    \A t \in {"A", "CNAME", "TXT"} : At(last.pre, last.host, {t}) # {}

\* C9 as stated: converging None on a hostname with A, CNAME and TXT records
\* deletes all of them and creates nothing.  (No operation does: each of the
\* two handlers removes the records of its own kinds only.)
C9_AllRemoved ==
    ((TowardsNone("route") \/ TowardsNone("metadata")) /\ HadAll) =>
        /\ At(zone, last.host, {"A", "CNAME", "TXT"}) = {}
        /\ Creates(last.ops) = <<>>

\* C9, amended: update_dns_route towards None succeeds, creates nothing and
\* deletes exactly the listed A and CNAME records of the hostname, so its TXT
\* records stay; update_dns_metadata towards None succeeds, creates nothing and
\* deletes exactly the TXT records of the hostname, so its A and CNAME records
\* stay.
C9_NoneRemovesItsKinds ==
    /\ TowardsNone("route") =>
          /\ last.ok /\ Creates(last.ops) = <<>>
          /\ Len(Deletes(last.ops)) = Cardinality(Listed(last.pre, last.host, {"A", "CNAME"}))
          /\ zone = SelectIdx(last.pre, Listed(last.pre, last.host, {"A", "CNAME"}))
    /\ TowardsNone("metadata") =>
          /\ last.ok /\ Creates(last.ops) = <<>>
          /\ Len(Deletes(last.ops)) = Cardinality(At(last.pre, last.host, {"TXT"}))
          /\ zone = SelectIdx(last.pre, At(last.pre, last.host, {"TXT"}))

\* update_dns_route towards None on a hostname with an A, a CNAME and a TXT
\* record has deleted the first two and left the TXT record
C9_Witness ==
    /\ TowardsNone("route") /\ HadAll /\ ~again
    /\ Len(Deletes(last.ops)) = 2
    /\ Len(zone) = 1 /\ zone[1].type = "TXT"
    /\ At(zone, last.host, {"TXT"}) = {1}

\* the last call is read_dns_records on a zone with a listed A record one of
\* whose targets is no IP address
ReadCorrupt ==
    /\ last.call = "read"
    /\ \E i \in 1..Len(last.pre) :
          /\ last.pre[i].type = "A" /\ ~last.pre[i].alias
          /\ \E t \in last.pre[i].targets : IpAddr_from_str(t) = ""

\* C10 as stated: read_dns_records on a zone with a corrupt A record fails with
\* a Serialization error and returns no record set.  (The error is another.)
C10_Serialization ==
    ReadCorrupt => ~last.ok /\ last.err = "Serialization" /\ last.out = {}

\* C10, amended: read_dns_records on a zone with a corrupt A record fails with
\* the Http error of status FAILED_DEPENDENCY and returns no record set.
C10_FailedDependency ==
    ReadCorrupt => ~last.ok /\ last.err = "FailedDependency" /\ last.out = {}

\* read_dns_records has failed on a zone that holds a corrupt A record beside a
\* sound one of another hostname
C10_Witness ==
    /\ ReadCorrupt /\ ~last.ok /\ last.err = "FailedDependency"
    /\ Len(last.pre) = 2
    /\ last.pre[1].name = LiveName(provider, HostB)
    /\ last.pre[2].name = LiveName(provider, HostA)
    /\ zone = last.pre

----------------------------------------------------------------------------
(* The calls of CloudDns with a provider call that fails *)

\* the greatest number of the provider call that fails
MaxFault == 8

\* the records a zone may hold before a call with a failure
FaultUniverse(prov) ==
    {ZoneRecord(LiveName(prov, HostA), "A", {<<Ip1>>}, 30, <<>>, <<>>, FALSE),
     ZoneRecord(LiveName(prov, HostA), "CNAME", {Target1}, 30, <<>>, <<>>, FALSE),
     ZoneRecord(LiveName(prov, HostA), "TXT", {OldText}, 30, <<>>, <<>>, FALSE),
     ZoneRecord(LiveName(prov, HostA), "MX", {<<"mail">>}, 30, <<>>, <<>>, FALSE),
     ZoneRecord(LiveName(prov, HostB), "A", {<<Ip1>>}, 30, <<>>, <<>>, FALSE),
     ZoneRecord(LiveName(prov, HostB), "TXT", {OldText}, 30, <<>>, <<>>, FALSE)}

FaultZones(prov) ==
    {z \in UNION {[1..n -> FaultUniverse(prov)] : n \in 0..MaxZone} :
        prov = "aws" => AwsWellFormed(z)}

\* no failure, or the failure of one provider call, of either kind
Faults ==
    {Env(f, k, 0, ProviderDomains, 0) : f \in 0..MaxFault, k \in {"transport", "status"}}

FaultRecordSets ==
    {{<<HostA, DnsRecord_Txt(<<"new">>)>>, <<HostB, DnsRecord_Cname(Target2)>>},
     {<<HostA, DnsRecord_Txt(<<"new">>)>>, <<HostA, new_a(Ip1)>>},
     {<<HostA, DnsRecord_Cname(Target1)>>, <<HostB, new_a(Ip2)>>},
     {<<HostA, DnsRecord_Txt(<<"new">>)>>, <<HostB, DnsRecord_Txt(<<"old">>)>>,
      <<HostA, DnsRecord_A(Ip1 :> DcVirginia @@ Ip2 :> NoDc)>>}}

FaultRouteInputs ==
    {new_a(Ip1), DnsRecord_A(Ip1 :> DcVirginia @@ Ip2 :> NoDc), DnsRecord_Cname(Target2),
     DnsRecord_None}

FaultMetadataInputs == {DnsRecord_Txt(<<"new">>), DnsRecord_None}

\* the calls with a failure: every call may meet any one failure
FaultCalls ==
    {RecordsCall(set, Faults) : set \in FaultRecordSets}
    \cup {RouteCall(h, value, NoTtl, Faults) : h \in {HostA, HostB}, value \in FaultRouteInputs}
    \cup {MetadataCall(h, value, NoTtl, Faults) :
             h \in {HostA, HostB}, value \in FaultMetadataInputs}

\* the calls with a failure beside the call of a second caller
SharedFaultCalls ==
    {RecordsCall({<<HostA, DnsRecord_Txt(<<"new">>)>>, <<HostA, new_a(Ip1)>>}, Faults),
     RouteCall(HostA, new_a(Ip1), NoTtl, Faults),
     MetadataCall(HostA, DnsRecord_Txt(<<"new">>), NoTtl, Faults)}

InitFaults ==
    /\ provider \in {"aws", "linode"}
    /\ zone \in FaultZones(provider)
    /\ last = NoCall
    /\ again = FALSE
    /\ built = NewBuilder
    /\ logs = NoLogs
    /\ account = OneZone
    /\ calls \in {Callers(provider, zone, run) :
                    run \in CallersOf(zone, FaultCalls, SharedFaultCalls,
                                      {RouteCall(HostA, DnsRecord_Cname(Target2), NoTtl,
                                                 {NoFault})})}

NextFaults == UpdateDnsRecords \/ UpdateDnsRoute \/ UpdateDnsMetadata

SpecFaults == InitFaults /\ [][NextFaults]_vars

\* C11: in update_dns_records, a provider call that fails is the last provider
\* call of the call, and the call returns an error.  (The claim as stated; the
\* code of LinodeDns breaks it for a delete that the provider refuses.)
C11_FailFast ==
    last.call = "records" =>
        \A i \in 1..Len(last.ops) :
            ~last.ops[i].ok => (~last.ok /\ i = Len(last.ops))

\* the number of the provider call with which the last entry of a call of
\* update_dns_records began: its zone lookup
LastEntry(ops) ==
    CHOOSE i \in 1..Len(ops) :
        ops[i].op = "zones" /\ \A j \in (i + 1)..Len(ops) : ops[j].op # "zones"

\* the creations that the entries before the last one made: each of them put
\* a line into the log of its handler
EarlierCreates(ops) ==
    {i \in 1..Len(ops) : i < LastEntry(ops) /\ ops[i].op = "create" /\ ops[i].ok}

\* C12: when update_dns_records fails at an entry, the caller receives with the
\* error the log lines of the entries converged before it, one for each record
\* they created.  (The claim as stated; the code returns the error alone.)
C12_PartialLog ==
    (last.call = "records" /\ ~last.ok) =>
        Len(last.log) >= Cardinality(EarlierCreates(last.ops))

\* the types of record a handler governs
Governed(call) == IF call = "metadata" THEN {"TXT"} ELSE {"A", "CNAME"}

\* the records of zone z that a call for hostname h does not govern, in their
\* order
Ungoverned(z, h, call) == SelectIdx(z, At(z, h, Governed(call)))

\* C13: update_dns_route and update_dns_metadata for hostname h, whether they
\* succeed or fail, create and delete only records of the name h and of the
\* types they govern (A and CNAME; TXT), and leave every other record of the
\* zone as it was: those of h of another type and those of other hostnames.
C13_Frame ==
    last.call \in {"route", "metadata"} =>
        /\ \A i \in 1..Len(Mutations(last.ops)) :
              /\ Mutations(last.ops)[i].rec.name = LiveName(provider, last.host)
              /\ Mutations(last.ops)[i].rec.type \in Governed(last.call)
        /\ Ungoverned(zone, last.host, last.call) = Ungoverned(last.pre, last.host, last.call)

\* update_dns_route has replaced the A record of hostname a by a CNAME record;
\* the TXT record of a and the A record of b are as they were
C13_Witness ==
    /\ last.call = "route" /\ last.host = HostA /\ last.ok
    /\ last.value = DnsRecord_Cname(Target2)
    /\ Len(last.pre) = 3
    /\ At(last.pre, HostA, {"A"}) # {} /\ At(last.pre, HostA, {"TXT"}) # {}
    /\ At(last.pre, HostB, {"A"}) # {}
    /\ Len(Deletes(last.ops)) = 1 /\ Len(Creates(last.ops)) = 1
    /\ At(zone, HostA, {"TXT"}) # {} /\ At(zone, HostB, {"A"}) # {}
    /\ At(zone, HostA, {"A"}) = {} /\ At(zone, HostA, {"CNAME"}) # {}

\* the errors of the kind Dependency: a failure of the provider, whatever the
\* type that carries it
DependencyErrors == {"Anyhow", "FailedDependency"}

\* C14: when the provider answers a delete with a failure (a transport error
\* or a response that is not 2xx), the call in progress returns an error of
\* the kind Dependency and issues no further operation, in particular no
\* creation. (The claim as stated; LinodeDns does not look at the status of
\* the answer to a delete.)
C14_DeleteFailurePropagated ==
    last.call \in {"route", "metadata", "records"} =>
        \A i \in 1..Len(last.ops) :
            (last.ops[i].op = "delete" /\ ~last.ops[i].ok) =>
                /\ ~last.ok
                /\ last.err \in DependencyErrors
                /\ i = Len(last.ops)

-----------------------------------------------------------------------------
(* DnsRecordSetBuilder: the insertions a, ag, cname and txt, and build.  The
   record set is a HashSet<(String, DnsRecord)>: the hash of a DnsRecord is
   its kind and its equality is the derived one, of kind and payload, so an
   insertion finds an entry already there only when hostname, kind and
   payload are all equal. *)

\* the insertions one builder receives
MaxInserts == 3

\* HashSet::insert: the set gains the pair unless it holds an equal pair
HashSetInsert(set, pair) == set \cup {pair}

\* the history, with pair the latest of its hostname and kind
Latest(latest, pair) ==
    {p \in latest : ~(p[1] = pair[1] /\ p[2].kind = pair[2].kind)} \cup {pair}

\* self.record_set.0.insert((hostname.to_owned(), record))
Insert(b, hostname, record) ==
    [b EXCEPT !.set = HashSetInsert(b.set, <<hostname, record>>),
              !.latest = Latest(b.latest, <<hostname, record>>),
              !.n = b.n + 1]

\* DnsRecordSetBuilder::ag
ag(b, hostname, ipgeos) == Insert(b, hostname, DnsRecord_A(ipgeos))

\* DnsRecordSetBuilder::a: every address without a datacenter, then ag
a(b, hostname, ips) == ag(b, hostname, [ip \in ips |-> NoDc])

\* DnsRecordSetBuilder::cname
cname(b, hostname, name) == Insert(b, hostname, DnsRecord_Cname(name))

\* DnsRecordSetBuilder::txt
txt(b, hostname, text) == Insert(b, hostname, DnsRecord_Txt(text))

\* DnsRecordSetBuilder::build: the entries drained into a new set
build(b) == [b EXCEPT !.set = {p : p \in b.set}, !.done = TRUE]

BuilderHosts == {HostA, HostB}

InitBuilder ==
    /\ provider = "aws"
    /\ zone = <<>>
    /\ last = NoCall
    /\ again = FALSE
    /\ built = NewBuilder
    /\ logs = NoLogs
    /\ account = OneZone
    /\ calls = NoCalls

MayInsert == ~built.done /\ built.n < MaxInserts

BuilderA ==
    \E h \in BuilderHosts, ips \in {{Ip1}, {Ip1, Ip2}} :
        /\ MayInsert
        /\ built' = a(built, h, ips)
        /\ UNCHANGED <<provider, zone, last, again, calls, account, logs>>

BuilderAg ==
    \E h \in BuilderHosts, ipgeos \in [{Ip1} -> {NoDc, DcVirginia}] :
        /\ MayInsert
        /\ built' = ag(built, h, ipgeos)
        /\ UNCHANGED <<provider, zone, last, again, calls, account, logs>>

BuilderCname ==
    \E h \in BuilderHosts, name \in {Target1, Target2} :
        /\ MayInsert
        /\ built' = cname(built, h, name)
        /\ UNCHANGED <<provider, zone, last, again, calls, account, logs>>

BuilderTxt ==
    \E h \in BuilderHosts, text \in {OldText, <<"new">>} :
        /\ MayInsert
        /\ built' = txt(built, h, text)
        /\ UNCHANGED <<provider, zone, last, again, calls, account, logs>>

BuilderBuild ==
    /\ ~built.done
    /\ built' = build(built)
    /\ UNCHANGED <<provider, zone, last, again, calls, account, logs>>

NextBuilder ==
    BuilderA \/ BuilderAg \/ BuilderCname \/ BuilderTxt \/ BuilderBuild

SpecBuilder == InitBuilder /\ [][NextBuilder]_vars

\* C15: after any sequence of insertions the built DnsRecordSet holds at most
\* one entry for each hostname and kind, and that entry carries the payload of
\* the latest insertion for them. (The claim as stated; the set of the code
\* keeps entries of one hostname and kind that differ in payload side by side.)
C15_SetSemantics ==
    built.done =>
        /\ \A p \in built.set, q \in built.set :
              (p[1] = q[1] /\ p[2].kind = q[2].kind) => p = q
        /\ built.set = built.latest

-----------------------------------------------------------------------------
\* the entry of update_dns_records that operation i of ops belongs to: every
\* entry begins with its zone lookup
EntryOf(ops, i) == Cardinality({j \in 1..i : ops[j].op = "zones"})

\* the hostnames of record_set that have an entry of one of kinds
HostsOf(record_set, kinds) == {p[1] : p \in {q \in record_set : q[2].kind \in kinds}}

\* C16: in update_dns_records the metadata convergence of every TXT entry of
\* the desired set comes before the route convergence of any A or CNAME entry:
\* with M hostnames that have a TXT entry, the first M entries run create and
\* delete TXT records only, and every create or delete of an A or CNAME record
\* belongs to a later entry; this holds of calls that fail midway too.
C16_MetadataFirst ==
    last.call = "records" =>
        LET M == Cardinality(HostsOf(last.set, {"Txt"}))
        IN  \A i \in 1..Len(last.ops) :
                last.ops[i].op \in {"create", "delete"} =>
                    IF last.ops[i].rec.type = "TXT"
                    THEN EntryOf(last.ops, i) <= M
                    ELSE EntryOf(last.ops, i) > M

\* a call with a TXT entry and a route entry has replaced a TXT record and
\* then created a route record
C16_Witness ==
    /\ last.call = "records" /\ last.ok
    /\ HostsOf(last.set, {"Txt"}) # {} /\ HostsOf(last.set, {"A", "Cname"}) # {}
    /\ \E i, j, k \in 1..Len(last.ops) :
          /\ i < j /\ j < k
          /\ last.ops[i].op = "delete" /\ last.ops[i].rec.type = "TXT"
          /\ last.ops[j].op = "create" /\ last.ops[j].rec.type = "TXT"
          /\ last.ops[k].op = "create" /\ last.ops[k].rec.type \in {"A", "CNAME"}

-----------------------------------------------------------------------------
(* Two convergence calls side by side.  The handlers hold no lock and share
   nothing but the provider: each call resolves the zone, lists the records,
   and from that one listing decides the deletions and creations it then
   sends one by one; between any two provider operations of one call the
   other call may run. *)

\* the longest zone two calls side by side start from
MaxRaceZone == 2

RaceZones(prov) ==
    {z \in UNION {[1..n -> FaultUniverse(prov)] : n \in 0..MaxRaceZone} :
        prov = "aws" => AwsWellFormed(z)}

\* the calls on hostname a and on hostname b
RaceCallsA ==
    {RouteCall(HostA, DnsRecord_Cname(Target2), NoTtl, {NoFault}),
     RouteCall(HostA, DnsRecord_A(Ip1 :> DcVirginia @@ Ip2 :> NoDc), NoTtl, {NoFault}),
     RouteCall(HostA, DnsRecord_None, NoTtl, {NoFault}),
     MetadataCall(HostA, DnsRecord_Txt(<<"new">>), NoTtl, {NoFault})}

RaceCallsB ==
    {RouteCall(HostB, new_a(Ip1), NoTtl, {NoFault}),
     RouteCall(HostB, DnsRecord_Cname(Target1), NoTtl, {NoFault}),
     MetadataCall(HostB, DnsRecord_Txt(<<"new">>), NoTtl, {NoFault}),
     MetadataCall(HostB, DnsRecord_None, NoTtl, {NoFault})}

\* the outcomes of the handler of call c on zone z
RunCall(prov, c, z) ==
    IF c.call = "route"
    THEN update_dns_route(prov, Start(z), Domain, c.host, c.value, NoTtl, NoFault)
    ELSE {update_dns_metadata(prov, Start(z), Domain, c.host, c.value, NoTtl, NoFault)}

InitRace ==
    /\ provider \in {"aws", "linode"}
    /\ zone \in RaceZones(provider)
    /\ last = NoCall
    /\ again = FALSE
    /\ built = NewBuilder
    /\ logs = NoLogs
    /\ account = OneZone
    /\ calls \in {[Callers(provider, zone, <<ca, cb>>) EXCEPT !.watch = TRUE] :
                    ca \in RaceCallsA, cb \in RaceCallsB}

NextRace == UpdateDnsRoute \/ UpdateDnsMetadata

SpecRace == InitRace /\ [][NextRace]_vars

\* the outcomes of call i and then call j, one after the other, from zone z
OneAfterTheOther(i, j, z) ==
    UNION {{<<o1, o2>> : o2 \in RunCall(provider, calls.run[j], o1.zone)} :
             o1 \in RunCall(provider, calls.run[i], z)}

BothDone == Len(calls.run) = 2 /\ \A i \in 1..2 : calls.run[i].pc = "done"

\* the zone when the first of the calls was made: the caller of the first
\* request the provider received had it before them
FirstZone == calls.run[calls.wire[1].by].pre

\* the requests ops without the places their deletions had in the listings
Requests(ops) == [k \in DOMAIN ops |-> [ops[k] EXCEPT !.id = 0]]

\* C17: two convergence calls for two different hostnames of one domain, run
\* side by side under any interleaving of their provider operations, issue the
\* same creates and deletes, each call in the same order, and leave a zone of
\* the same records as the two calls run one after the other, in either order.
C17_Parallel ==
    BothDone =>
        \A pair \in {<<1, 2>>, <<2, 1>>} :
            \E r \in OneAfterTheOther(pair[1], pair[2], FirstZone) :
                /\ calls.run[pair[1]].ok /\ calls.run[pair[2]].ok
                /\ r[1].ok /\ r[2].ok
                /\ Requests(r[1].ops) = Requests(calls.run[pair[1]].ops)
                /\ Requests(r[2].ops) = Requests(calls.run[pair[2]].ops)
                /\ SameRecords(zone, r[2].zone)

\* both calls have deleted and created, and the provider received a deletion
\* of the one call between the deletion and the creation of the other
C17_Witness ==
    /\ BothDone
    /\ \E x, y, w \in 1..Len(calls.wire) :
          /\ x < y /\ y < w
          /\ calls.wire[x].by = 1 /\ calls.wire[x].op.op = "delete"
          /\ calls.wire[y].by = 2 /\ calls.wire[y].op.op = "delete"
          /\ calls.wire[w].by = 1 /\ calls.wire[w].op.op = "create"
    /\ \E v \in 1..Len(calls.wire) :
          calls.wire[v].by = 2 /\ calls.wire[v].op.op = "create"

-----------------------------------------------------------------------------
(* Listings in pages: an account with several zones, and a provider that puts
   a bounded number of zones and of records in one answer of a listing *)

\* the zones or records of one answer of a listing
PageSize == 2

\* zones of the account other than d
SubZone == <<"x", DOT, "d">>
OtherZone == <<"e">>

DomainLists ==
    {<<Domain>>, <<SubZone>>, <<Domain, SubZone, OtherZone>>, <<SubZone, OtherZone, Domain>>}

Accounts ==
    {Account(ds, zp, p) : ds \in DomainLists, zp \in {0, PageSize}, p \in {0, PageSize}}

\* what a call meets at the provider of account acc, no request failing
EnvOf(acc) == Env(0, "transport", acc.page, acc.domains, acc.zpage)

\* the calls on account acc
ListingCalls(acc) ==
    {ReadCall({EnvOf(acc)})}
    \cup {RouteCall(HostA, value, NoTtl, {EnvOf(acc)}) :
             value \in {DnsRecord_Cname(Target2), DnsRecord_None}}
    \cup {MetadataCall(HostA, value, NoTtl, {EnvOf(acc)}) : value \in FaultMetadataInputs}

InitListing ==
    /\ provider \in {"aws", "linode"}
    /\ zone \in FaultZones(provider)
    /\ last = NoCall
    /\ again = FALSE
    /\ built = NewBuilder
    /\ logs = NoLogs
    /\ account \in Accounts
    /\ calls \in {Callers(provider, zone, run) :
                    run \in CallersOf(zone, ListingCalls(account), ListingCalls(account),
                                      {})}

NextListing == ReadDnsRecords \/ UpdateDnsRoute \/ UpdateDnsMetadata

SpecListing == InitListing /\ [][NextListing]_vars

\* the account with record listings that hold every record in one answer
WholeListing == EnvOf(Account(account.domains, account.zpage, 0))

\* C18: when the provider splits the record listing of a zone over several
\* pages, the adapter follows the continuation tokens to the end, so
\* read_dns_records and every convergence see every record of the zone and do
\* what they do on a listing that comes in one answer; a partial listing is
\* never used. (The claim as stated; neither adapter asks for a second page.)
C18_CompleteListing ==
    CASE last.call = "read" ->
            LET r == read_dns_records(provider, Start(last.pre), Domain, WholeListing)
            IN  last.ok = r.st.ok /\ last.out = r.out
      [] last.call = "route" ->
            \E o \in update_dns_route(provider, Start(last.pre), Domain, last.host,
                                      last.value, last.ttl, WholeListing) :
                last.ok = o.ok /\ last.ops = o.ops /\ zone = o.zone
      [] last.call = "metadata" ->
            LET o == update_dns_metadata(provider, Start(last.pre), Domain, last.host,
                                         last.value, last.ttl, WholeListing)
            IN  last.ok = o.ok /\ last.ops = o.ops /\ zone = o.zone
      [] OTHER -> TRUE

\* the zone listing of the account does not fit into one answer
ZonesTruncated == IsTruncated(account.domains, account.zpage)

\* the provider operations of a call that ask for or change records
RecordOps(ops) == SelectSeq(ops, LAMBDA o : o.op \in {"list", "create", "delete"})

\* C19: when the zone listing of the provider holds more zones than one answer
\* returns, zone resolution fails with an error of the kind Dependency in
\* every adapter, whether or not the requested domain is in the answer, and no
\* record operation is issued. (The claim as stated; LinodeDns reads the one
\* answer it gets and goes on when the domain is in it.)
C19_TruncatedIsError ==
    (last.call # "none" /\ ZonesTruncated) =>
        /\ ~last.ok
        /\ last.err \in DependencyErrors
        /\ RecordOps(last.ops) = <<>>

\* no zone of the account has a name equal to the requested domain
UnknownZone == Domain \notin SeqToSet(account.domains)

\* C20 as stated: with no zone named as the requested domain,
\* read_dns_records, update_dns_route and update_dns_metadata fail with a
\* NotFound error and issue no record listing, create or delete.  (The code
\* fails with FAILED_DEPENDENCY, the status of every other provider failure.)
C20_NotFound ==
    (last.call # "none" /\ UnknownZone) =>
        /\ ~last.ok
        /\ last.err = "NotFound"
        /\ RecordOps(last.ops) = <<>>

-----------------------------------------------------------------------------
\* C21: within one update_dns_route towards A or Cname every delete is issued
\* before the first create, and if any delete fails no create is issued. (The
\* claim as stated; LinodeDns goes on to the creations after a delete that the
\* provider refused.)
C21_DeletesFirst ==
    (last.call = "route" /\ last.value.kind \in {"A", "Cname"}) =>
        /\ \A i, j \in 1..Len(last.ops) :
              (last.ops[i].op = "create" /\ last.ops[j].op = "delete") => j < i
        /\ (\E j \in 1..Len(last.ops) : last.ops[j].op = "delete" /\ ~last.ops[j].ok)
              => Creates(last.ops) = <<>>

-----------------------------------------------------------------------------
\* the affinity group a live record stands for: the datacenter of its region
LiveGroup(rec) == IF rec.geo = <<>> THEN NoDc ELSE from_aws_region(rec.geo)

LiveIps(rec) == {IpAddr_from_str(t) : t \in rec.targets}

\* the keep rule by affinity group: every IP of the record is desired with the
\* group of the record and not claimed by an earlier kept record, and the
\* record holds every desired IP of its group
KeepByGroup(rec, desired, claimed) ==
    /\ \A ip \in LiveIps(rec) :
          ip \in DOMAIN desired /\ desired[ip] = LiveGroup(rec) /\ ip \notin claimed
    /\ \A ip \in DOMAIN desired : desired[ip] = LiveGroup(rec) => ip \in LiveIps(rec)

RECURSIVE KeptAt(_, _, _, _, _)
\* the positions from i on of the A records in among that one pass over zone
\* z keeps under the rule
KeptAt(z, i, among, desired, claimed) ==
    IF i > Len(z) THEN {}
    ELSE IF i \notin among THEN KeptAt(z, i + 1, among, desired, claimed)
    ELSE IF KeepByGroup(z[i], desired, claimed)
    THEN {i} \cup KeptAt(z, i + 1, among, desired, claimed \cup LiveIps(z[i]))
    ELSE KeptAt(z, i + 1, among, desired, claimed)

\* the records of zone z at the positions of ps, in their order
RecordsAt(z, ps) == SelectIdx(z, (1..Len(z)) \ ps)

\* the records a call deleted, in the order of the deletions
DeletedRecords(ops) == [k \in 1..Len(Deletes(ops)) |-> Deletes(ops)[k].rec]

\* C22 as stated: with desired A, in every adapter an existing A record is
\* kept if and only if the keep rule by affinity group takes it, and every
\* other existing A record and every existing CNAME of the hostname is deleted.
\* (LinodeDns keeps by address alone, and AwsDns does not list alias records.)
C22_KeepByGroup ==
    RouteA =>
        LET arecs == At(last.pre, last.host, {"A"})
            kept == KeptAt(last.pre, 1, arecs, last.value.addrs, {})
        IN  DeletedRecords(last.ops)
                = RecordsAt(last.pre, At(last.pre, last.host, {"A", "CNAME"}) \ kept)

-----------------------------------------------------------------------------
\* the A records of hostname h in zone z
ARecords(z, h) == {z[i] : i \in At(z, h, {"A"})}

\* C23: within one update_dns_route of AwsDns towards A, the creations, one for
\* each affinity group, carry set identifiers that differ from one another
\* (the record of the IPs without affinity carries none), so every created
\* record is in the zone after the call: no creation replaced the record of
\* another group. (The claim as stated; the set identifier is the nearest AWS
\* region of the group, which two groups may share.)
C23_DistinctSetIds ==
    (RouteA /\ provider = "aws") =>
        /\ \A i, j \in 1..Len(Creates(last.ops)) :
              i # j => Creates(last.ops)[i].rec.setid # Creates(last.ops)[j].rec.setid
        /\ \A i \in 1..Len(Creates(last.ops)) :
              Creates(last.ops)[i].rec \in ARecords(zone, last.host)

-----------------------------------------------------------------------------
\* C24: whatever A and CNAME records the hostname has, after
\* update_dns_route towards Cname(target) returns success the hostname has
\* exactly one CNAME record, with that exact target, and no A record, and the
\* call has issued a create only if no CNAME of the listing had the target.
\* (The claim as stated; a delete that LinodeDns takes for done although the
\* provider refused it leaves the A record beside the new CNAME.)
C24_CnamePostcondition ==
    RouteCname =>
        /\ Cardinality(At(zone, last.host, {"CNAME"})) = 1
        /\ \A i \in At(zone, last.host, {"CNAME"}) : zone[i].targets = {last.value.text}
        /\ At(zone, last.host, {"A"}) = {}
        /\ Creates(last.ops) # <<>> =>
              \A i \in At(last.pre, last.host, {"CNAME"}) :
                  last.pre[i].targets # {last.value.text}

-----------------------------------------------------------------------------
(* update_dns_metadata with texts made of double quotes and other characters *)

\* the longest text, in tokens
MaxText == 3

\* every text of at most MaxText tokens, each a double quote or the label x
Texts == UNION {[1..n -> {QUOTE, "x"}] : n \in 0..MaxText}

QuoteCalls == {MetadataCall(HostA, DnsRecord_Txt(text), NoTtl, {NoFault}) : text \in Texts}

InitQuote ==
    /\ provider \in {"aws", "linode"}
    /\ zone \in RaceZones(provider)
    /\ last = NoCall
    /\ again = FALSE
    /\ built = NewBuilder
    /\ logs = NoLogs
    /\ account = OneZone
    /\ calls \in {Callers(provider, zone, run) :
                    run \in CallersOf(zone, QuoteCalls, QuoteCalls, {})}

NextQuote == UpdateDnsMetadata

SpecQuote == InitQuote /\ [][NextQuote]_vars

\* a text that is a double-quoted literal: it begins with a double quote and
\* ends with another one
QuotedLiteral(text) == Len(text) >= 2 /\ text[1] = QUOTE /\ text[Len(text)] = QUOTE

\* C25: for every desired Txt(text), in every adapter, the value of the TXT
\* record that update_dns_metadata creates is text itself when text is a
\* double-quoted literal and otherwise text wrapped in one pair of double
\* quotes; the value always begins and ends with distinct double quotes. (The
\* claim as stated; LinodeDns sends the text as it is, and AwsDns takes the
\* text of one double quote for quoted.)
C25_Quoted ==
    (last.call = "metadata" /\ last.value.kind = "Txt" /\ last.ok) =>
        /\ Len(Creates(last.ops)) = 1
        /\ LET text == last.value.text
               v == CHOOSE t \in Creates(last.ops)[1].rec.targets : TRUE
           IN  /\ Creates(last.ops)[1].rec.targets = {v}
               /\ v = IF QuotedLiteral(text) THEN text ELSE <<QUOTE>> \o text \o <<QUOTE>>
               /\ QuotedLiteral(v)

-----------------------------------------------------------------------------
\* the last call is update_dns_route towards A for a hostname that has, among
\* the A records the listing shows, one with a target that is no IP address
CorruptRoute ==
    /\ last.call = "route" /\ last.value.kind = "A"
    /\ \E i \in Listed(last.pre, last.host, {"A"}) : "" \in LiveIps(last.pre[i])

\* C26: when update_dns_route is called with desired A and an existing A
\* record of the hostname has a target that does not parse as an IP address,
\* the call returns an error before it issues any delete or create: the zone
\* is as it was.
C26_CorruptRouteFails ==
    CorruptRoute =>
        /\ ~last.ok
        /\ Mutations(last.ops) = <<>>
        /\ zone = last.pre

\* the hostname has a corrupt A record behind a CNAME record and an A record
\* that the desired set does not hold, and the call has failed
C26_Witness ==
    /\ CorruptRoute /\ ~last.ok /\ last.err = "FailedDependency"
    /\ Len(last.pre) = 3
    /\ last.pre[1].type = "CNAME"
    /\ last.pre[2].type = "A" /\ "" \notin LiveIps(last.pre[2])
    /\ LiveIps(last.pre[2]) \cap DOMAIN last.value.addrs = {}
    /\ "" \in LiveIps(last.pre[3])

-----------------------------------------------------------------------------
\* the zone lookups of a call
ZoneLookups(ops) == SelectSeq(ops, LAMBDA o : o.op = "zones")

\* C27: within one update_dns_records that succeeds the zone listing of the
\* provider is queried exactly once, whatever the number of entries of the
\* desired set. (The claim as stated; the code resolves the zone in every
\* update_dns_metadata and update_dns_route it calls.)
C27_ResolvedOnce ==
    (last.call = "records" /\ last.ok) => Len(ZoneLookups(last.ops)) = 1

-----------------------------------------------------------------------------
(* The hostname functions of AwsDns: a hostname is fully qualified, and the
   result is stripped of the domain again *)

\* the longest hostname, in tokens
MaxName == 3

NameDomains == {<<"d">>, <<"d", DOT, "e">>}

\* every hostname of at most MaxName tokens, each a label or a dot
Hostnames == UNION {[1..n -> {"a", "d", "e", DOT}] : n \in 0..MaxName}

\* a round trip of hostname h in domain d: at step 1 fq is the fully
\* qualified name, at step 2 back is that name without the domain
NameTrip(d, h, step, fq, back) ==
    [call |-> "name", domain |-> d, hostname |-> h, step |-> step, fq |-> fq,
     back |-> back]

InitNames ==
    /\ provider = "aws"
    /\ zone = <<>>
    /\ last \in {NameTrip(d, h, 0, <<>>, <<>>) : d \in NameDomains, h \in Hostnames}
    /\ again = FALSE
    /\ built = NewBuilder
    /\ logs = NoLogs
    /\ account = OneZone
    /\ calls = NoCalls

Qualify ==
    /\ last.call = "name" /\ last.step = 0
    /\ last' = [last EXCEPT !.step = 1, !.fq = fully_qualified(last.hostname, last.domain)]
    /\ UNCHANGED <<provider, zone, again, aside>>

Strip ==
    /\ last.call = "name" /\ last.step = 1
    /\ last' = [last EXCEPT !.step = 2, !.back = sans_domain(last.domain, last.fq)]
    /\ UNCHANGED <<provider, zone, again, aside>>

NextNames == Qualify \/ Strip

SpecNames == InitNames /\ [][NextNames]_vars

\* a round trip is through
Stripped == last.call = "name" /\ last.step = 2

\* C28 as stated: for every domain d and every hostname h, the empty apex, a
\* relative name or a name that already ends with d,
\* sans_domain(d, fully_qualified(h, d)) is h.
C28_RoundTrip == Stripped => last.back = last.hostname

\* C28: sans_domain(d, fully_qualified(h, d)) is h for the empty apex and for
\* every hostname that is neither d nor ends with .d; fully_qualified leaves a
\* hostname that already ends with d as it is, so for d itself the round trip
\* returns the empty apex and for x.d it returns x, the relative name.
C28_RelativeRoundTrip ==
    Stripped =>
        LET d == last.domain
            h == last.hostname
        IN  last.back = IF h = d THEN <<>>
                        ELSE IF ends_with(h, <<DOT>> \o d)
                        THEN SubSeq(h, 1, Len(h) - Len(d) - 1)
                        ELSE h

\* the relative name a has gone to a.d and back to a
C28_Witness ==
    /\ Stripped
    /\ last.hostname = <<"a">> /\ last.domain = <<"d">>
    /\ last.fq = <<"a", DOT, "d">>
    /\ last.back = <<"a">>


----------------------------------------------------------------------------
(* A caller that converges a zone with update_dns_records and then reads it  *)
(* back with read_dns_records                                                *)

\* two callers: the one converges the zone, the other reads it
InitRoundTrip ==
    /\ provider \in {"aws", "linode"}
    /\ zone \in RaceZones(provider)
    /\ last = NoCall
    /\ again = FALSE
    /\ built = NewBuilder
    /\ logs = NoLogs
    /\ account = OneZone
    /\ calls \in {Callers(provider, zone, <<RecordsCall(set, {NoFault}), ReadCall({NoFault})>>) :
                    set \in RecordSets}

NextRoundTrip == UpdateDnsRecords \/ ReadDnsRecords

SpecRoundTrip == InitRoundTrip /\ [][NextRoundTrip]_vars

\* the zone before the convergence held no record at a hostname of the set
FreshFor(prov, z, set) ==
    \A p \in set : \A i \in 1..Len(z) : z[i].name # LiveName(prov, p[1])

\* the read has returned, and it was made after the convergence had returned
\* with success
ReadBack ==
    /\ last.call = "read"
    /\ Len(calls.run) = 2 /\ calls.run[2].pc = "done" /\ 1 \in calls.run[2].after
    /\ calls.run[1].ok

\* C29: after update_dns_records(domain, S) succeeded on a zone that held no
\* record at the hostnames of S, read_dns_records(domain) succeeds and its
\* answer holds every (hostname, record) of S: the same relative hostname with
\* an equal record (the same text, the same target, the same map of addresses
\* to affinity groups)
C29_ReadAfterConverge ==
    (ReadBack /\ FreshFor(provider, calls.run[1].pre, calls.run[1].set))
        => (last.ok /\ \A p \in calls.run[1].set : p \in last.out)


----------------------------------------------------------------------------
(* Threads that share loggers.  A call of a StringLogger method takes the    *)
(* mutex of self.inner; append, extend and prepend then take the mutex of   *)
(* their argument while they hold the first.  clone takes the mutex of the  *)
(* logger twice, for to_string and for contains_warnings, and the clone     *)
(* shares nothing with it.  A thread waits while another                    *)
(* thread holds the mutex it asks for.  Locking a std::sync::Mutex that the *)
(* thread holds itself never returns: the thread blocks forever or panics,  *)
(* and the unwinding drops the guard it holds, which poisons that mutex.    *)
(* lock() of a poisoned mutex takes it and returns Err, so the body of the  *)
(* method is skipped.                                                       *)

MaxCalls == 3

Threads == {1, 2}

Loggers == {1, 2}

\* the StringLogger values of the threads: each logger and a reference() of it
Handles == {StringLogger(FALSE, l) : l \in Loggers}

TwoLocks == {"append", "extend", "prepend"}

\* a thread and the call it makes: stage is idle (no call under way), clone1
\* and clone2 (about to lock the inner of arg for the to_string and for the
\* contains_warnings of clone), lock1 (about to lock self.inner), lock2
\* (holds self.inner, about to lock the inner of the argument), stuck or
\* panicked; out is what to_string returned, pushed whether trace, warn or
\* indent stored its line, and made the clone of arg that the thread has
\* made, the argument of extend(arg.clone())
Thread(op, self, arg, ind, line, stage, out, pushed) ==
    [op |-> op, self |-> self, arg |-> arg, ind |-> ind, line |-> line,
     stage |-> stage, out |-> out, pushed |-> pushed, made |-> NewInner]

Idle == Thread("none", 0, 0, "None", <<>>, "idle", <<>>, FALSE)

\* the calls a thread may make
LoggerCalls ==
    {Thread(op, h.inner, 0, "None", line, "lock1", <<>>, FALSE) :
        op \in {"trace"}, h \in Handles, line \in {<<>>, <<"x">>}}
    \cup {Thread("warn", h.inner, 0, "None", <<"w">>, "lock1", <<>>, FALSE) : h \in Handles}
    \cup {Thread("to_string", h.inner, 0, "None", <<>>, "lock1", <<>>, FALSE) : h \in Handles}
    \cup {Thread("append", h.inner, reference(g).inner, <<"  ">>, <<>>, "lock1", <<>>, FALSE) :
            h \in Handles, g \in Handles}
    \cup {Thread(op, h.inner, reference(g).inner, "None", <<>>, "lock1", <<>>, FALSE) :
            op \in {"extend", "prepend"}, h \in Handles, g \in Handles}
    \cup {Thread("indent", h.inner, 0, <<"  ">>, line, "lock1", <<>>, FALSE) :
            h \in Handles, line \in {<<>>, <<"x", NewLine, "y">>}}
    \cup {Thread("clone", 0, g.inner, "None", <<>>, "clone1", <<>>, FALSE) : g \in Handles}
    \cup {Thread("extend_clone", h.inner, g.inner, "None", <<>>, "clone1", <<>>, FALSE) :
            h \in Handles, g \in Handles}

Mutex(owner, poisoned) == [owner |-> owner, poisoned |-> poisoned]

\* StringLogger::default() or StringLogger::from_string for each logger
InitLoggers ==
    /\ provider = "aws"
    /\ zone = <<>>
    /\ last = NoCall
    /\ again = FALSE
    /\ built = NewBuilder
    /\ account = OneZone
    /\ calls = NoCalls
    /\ logs \in {[inner |-> i, mutex |-> [l \in Loggers |-> Mutex(0, FALSE)],
                  thr |-> [t \in Threads |-> Idle], n |-> 0] :
                    i \in [Loggers -> {NewInner, trace(NewInner, <<"m">>)}]}

Others == <<provider, zone, last, again, built, calls, account>>

\* a thread calls a method.  trace, warn and indent of the empty line return
\* at once.
LoggerCall(t) ==
    /\ logs.thr[t].stage = "idle"
    /\ logs.n < MaxCalls
    /\ \E c \in LoggerCalls :
          logs' = [logs EXCEPT !.n = @ + 1,
                               !.thr[t] = IF c.op \in {"trace", "warn", "indent"} /\ c.line = <<>>
                                          THEN [c EXCEPT !.stage = "idle"] ELSE c]
    /\ UNCHANGED Others

\* trace, warn, indent and to_string: lock self.inner, run the body, unlock
LockOne(t) ==
    LET c == logs.thr[t]
        m == logs.mutex[c.self]
        inner == logs.inner[c.self]
    IN  /\ c.stage = "lock1" /\ c.op \notin TwoLocks \cup {"extend_clone"}
        /\ m.owner = 0
        /\ logs' = [logs EXCEPT
              !.inner[c.self] = IF m.poisoned THEN inner
                                ELSE CASE c.op = "trace" -> trace(inner, c.line)
                                       [] c.op = "warn" -> warn(inner, c.line)
                                       [] c.op = "indent" -> indent(inner, c.line, c.ind)
                                       [] OTHER -> inner,
              !.thr[t] = [c EXCEPT !.stage = "idle",
                                   !.pushed = ~m.poisoned /\ c.op \in {"trace", "warn", "indent"},
                                   !.out = IF c.op = "to_string" /\ ~m.poisoned
                                           THEN to_string(inner) ELSE <<>>]]
        /\ UNCHANGED Others

\* clone: self.to_string() locks the inner of the logger, joins its lines
\* and unlocks
CloneLines(t) ==
    LET c == logs.thr[t]
        m == logs.mutex[c.arg]
    IN  /\ c.stage = "clone1"
        /\ m.owner = 0
        /\ logs' = [logs EXCEPT
              !.thr[t] = [c EXCEPT !.stage = "clone2",
                                   !.out = StringLogger_to_string(logs.inner[c.arg],
                                                                  m.poisoned)]]
        /\ UNCHANGED Others

\* clone: self.contains_warnings() locks the inner of the logger again, reads
\* the flag and unlocks; the clone is made, and extend(arg.clone()) begins
CloneWarn(t) ==
    LET c == logs.thr[t]
        m == logs.mutex[c.arg]
    IN  /\ c.stage = "clone2"
        /\ m.owner = 0
        /\ logs' = [logs EXCEPT
              !.thr[t] = [c EXCEPT !.stage = IF c.op = "clone" THEN "idle" ELSE "lock1",
                                   !.made = clone(c.out,
                                                  contains_warnings(logs.inner[c.arg],
                                                                    m.poisoned))]]
        /\ UNCHANGED Others

\* append, extend and prepend: lock self.inner
LockSelf(t) ==
    LET c == logs.thr[t]
    IN  /\ c.stage = "lock1" /\ c.op \in TwoLocks \cup {"extend_clone"}
        /\ logs.mutex[c.self].owner = 0
        /\ logs' = [logs EXCEPT !.mutex[c.self].owner = t, !.thr[t].stage = "lock2"]
        /\ UNCHANGED Others

\* append, extend and prepend: lock the inner of the argument, run the body
\* when neither mutex is poisoned, unlock both
LockArg(t) ==
    LET c == logs.thr[t]
        ok == ~logs.mutex[c.self].poisoned /\ ~logs.mutex[c.arg].poisoned
        r == IF c.op = "prepend" THEN prepend(logs.inner[c.self], logs.inner[c.arg])
             ELSE IF c.op = "extend" THEN extend(logs.inner[c.self], logs.inner[c.arg])
             ELSE append(logs.inner[c.self], logs.inner[c.arg], c.ind)
    IN  /\ c.stage = "lock2" /\ c.op \in TwoLocks /\ c.arg # c.self
        /\ logs.mutex[c.arg].owner = 0
        /\ logs' = [logs EXCEPT
              !.inner[c.self] = IF ok THEN r.to ELSE @,
              !.inner[c.arg] = IF ok THEN r.from ELSE @,
              !.mutex[c.self].owner = 0,
              !.thr[t].stage = "idle"]
        /\ UNCHANGED Others

\* extend(arg.clone()): the mutex of the clone is free; the body runs on the
\* inner of the clone, which is dropped after it, and the logger cloned keeps
\* its lines
LockClone(t) ==
    LET c == logs.thr[t]
        r == extend(logs.inner[c.self], c.made)
    IN  /\ c.stage = "lock2" /\ c.op = "extend_clone"
        /\ logs' = [logs EXCEPT
              !.inner[c.self] = IF logs.mutex[c.self].poisoned THEN @ ELSE r.to,
              !.mutex[c.self].owner = 0,
              !.thr[t].stage = "idle"]
        /\ UNCHANGED Others

\* append, extend and prepend with an argument that shares the inner of self:
\* the thread locks the mutex it holds
Relock(t) ==
    LET c == logs.thr[t]
    IN  /\ c.stage = "lock2" /\ c.op \in TwoLocks /\ c.arg = c.self
        /\ \/ logs' = [logs EXCEPT !.thr[t].stage = "stuck"]
           \/ logs' = [logs EXCEPT !.thr[t].stage = "panicked",
                                   !.mutex[c.self] = Mutex(0, TRUE)]
        /\ UNCHANGED Others

NextLoggers ==
    \E t \in Threads :
        \/ LoggerCall(t) \/ LockOne(t) \/ LockSelf(t) \/ LockArg(t) \/ Relock(t)
        \/ CloneLines(t) \/ CloneWarn(t) \/ LockClone(t)

SpecLoggers == InitLoggers /\ [][NextLoggers]_vars

\* the mutex a thread waits for, 0 when it waits for none
WaitsFor(t) ==
    LET c == logs.thr[t]
    IN  IF c.stage = "lock1" THEN c.self
        ELSE IF c.stage \in {"clone1", "clone2", "stuck"} THEN c.arg
        ELSE IF c.stage = "lock2" /\ c.op \in TwoLocks /\ c.arg # c.self THEN c.arg
        ELSE 0

\* some threads wait, each for a mutex that one of them holds: none of them
\* ever goes on
BlockedForever ==
    \E S \in SUBSET Threads :
        /\ S # {}
        /\ \A t \in S : WaitsFor(t) # 0 /\ logs.mutex[WaitsFor(t)].owner \in S

\* C30: the logger is thread-safe: whatever the threads call and whichever
\* logger they pass to append, extend and prepend, no call blocks forever, and
\* a trace or warn call of a line that returned has stored the line in the
\* inner that all the handles of the logger share
C30_ThreadSafe ==
    /\ ~BlockedForever
    /\ \A t \in Threads :
          LET c == logs.thr[t]
          IN  (c.stage = "idle" /\ c.op \in {"trace", "warn"} /\ c.line # <<>>)
                  => c.pushed

====
